---- MODULE Spec2Model ----
(***************************************************************************)
(* Model of the CVR reconciliation and budget-alerting engine of the       *)
(* NEW-DASHBOARD backend: the relational store operations of               *)
(* backend/crud.py, the status evaluation of backend/utils/budget_check.py *)
(* and the spreadsheet ledger updater of backend/utils/update_cvr.py.      *)
(*                                                                         *)
(* Money amounts are whole pounds (the code uses floats).  Texts that the  *)
(* code matches by substring are sequences of one-character strings.       *)
(***************************************************************************)
EXTENDS Integers, Sequences, FiniteSets, Bags, TLC

VARIABLES jobs, budgets, expenses, alerts, invoices, ledger, update_rules, pc, probe, lastCall

vars == <<jobs, budgets, expenses, alerts, invoices, ledger, update_rules, pc, probe, lastCall>>

storeVars == <<jobs, budgets, expenses, alerts>>

ledgerVars == <<ledger, update_rules>>

(***************************************************************************)
(* Bounds of the model.                                                    *)
(***************************************************************************)
MaxBudgets == 2

MaxExpenses == 2

MaxAlerts == 2

MaxBudgetAmount == 20

MaxActualAmount == 25

(***************************************************************************)
(* Input sets the actions draw from.                                       *)
(***************************************************************************)
BudgetAmounts == {0, 50}

ExpenseAmounts == {50, 60}

(***************************************************************************)
(* Generic helpers.                                                        *)
(***************************************************************************)
Max(S) == CHOOSE x \in S : \A y \in S : y <= x

Min(S) == CHOOSE x \in S : \A y \in S : x <= y

NextId(rows) == IF rows = {} THEN 1 ELSE Max({r.id : r \in rows}) + 1

RECURSIVE SortedById(_)
SortedById(rows) ==
    IF rows = {} THEN <<>>
    ELSE LET first == CHOOSE r \in rows : \A q \in rows : r.id <= q.id
         IN <<first>> \o SortedById(rows \ {first})

NoCall == [op |-> "none"]

(***************************************************************************)
(* models.py: the expense category enumeration and its string values.      *)
(***************************************************************************)
ExpenseCategory == {"material", "labour", "plant_machinery", "overheads", "subcontractor"}

CategoryValue(c) ==
    CASE c = "material" -> <<"m","a","t","e","r","i","a","l">>
      [] c = "labour" -> <<"l","a","b","o","u","r">>
      [] c = "plant_machinery" -> <<"p","l","a","n","t","_","m","a","c","h","i","n","e","r","y">>
      [] c = "overheads" -> <<"o","v","e","r","h","e","a","d","s">>
      [] c = "subcontractor" -> <<"s","u","b","c","o","n","t","r","a","c","t","o","r">>

\* the (job id, category) pairs the budget and expense requests draw from: two categories of one
\* job, one of them also in a second job, and a job id that does not exist
BudgetTargets == {<<1, "labour">>, <<1, "plant_machinery">>, <<2, "labour">>, <<3, "labour">>}

(***************************************************************************)
(* Text formatting as done by the f-strings of crud.py.                    *)
(***************************************************************************)
DigitChar(d) == <<"0","1","2","3","4","5","6","7","8","9">>[d + 1]

RECURSIVE Digits(_)
Digits(n) == IF n < 10 THEN <<DigitChar(n)>> ELSE Digits(n \div 10) \o <<DigitChar(n % 10)>>

\* f"{x:.2f}" of a whole, non-negative amount
Fixed2(n) == Digits(n) \o <<".", "0", "0">>

\* round(num / den * 10) to the nearest integer, ties to even
RoundTenths(num, den) ==
    LET q == (10 * num) \div den
        r == (10 * num) % den
    IN IF 2 * r > den THEN q + 1
       ELSE IF 2 * r = den THEN q + (q % 2)
       ELSE q

\* f"{num/den:.1f}" of a non-negative quotient
Fixed1(num, den) ==
    LET t == RoundTenths(num, den)
    IN Digits(t \div 10) \o <<".", DigitChar(t % 10)>>

\* Alert.message.contains(x): LIKE '%' || x || '%', where '_' in x matches any one character
MessageContains(message, x) ==
    \E i \in 1..(Len(message) - Len(x) + 1) :
        \A k \in 1..Len(x) : x[k] = "_" \/ message[i + k - 1] = x[k]

OverrunPrefix == <<"B","u","d","g","e","t"," ","o","v","e","r","r","u","n"," ","i","n"," ">>

\* f"Budget overrun in {category}: £{overrun:.2f} over budget ({percentage_over:.1f}%)"
OverrunMessage(overrun) ==
    OverrunPrefix \o CategoryValue(overrun.category) \o <<":", " ", "£">> \o Fixed2(overrun.overrun)
        \o <<" ","o","v","e","r"," ","b","u","d","g","e","t"," ","(">>
        \o Fixed1(100 * overrun.overrun, overrun.budgeted) \o <<"%", ")">>

\* "high" if overrun['percentage_over'] > 20 else "medium"
OverrunSeverity(overrun) ==
    IF 100 * overrun.overrun > 20 * overrun.budgeted THEN "high" ELSE "medium"

(***************************************************************************)
(* crud.py: queries of the store.                                          *)
(***************************************************************************)
get_budgets_by_job(job_id) == SortedById({b \in budgets : b.job_id = job_id})

RECURSIVE BagSum(_, _)
BagSum(B, keys) ==
    IF keys = {} THEN 0
    ELSE LET e == CHOOSE x \in keys : TRUE
         IN e.amount * CopiesIn(e, B) + BagSum(B, keys \ {e})

\* db.query(func.sum(Expense.amount)).filter(job_id, category).scalar() or 0.0
ActualSpend(job_id, category) ==
    BagSum(expenses, {e \in BagToSet(expenses) : e.job_id = job_id /\ e.category = category})

get_active_alerts(job_id) == {a \in alerts : ~a.is_acknowledged /\ a.job_id = job_id}

\* True when evaluating the overrun entry of this budget row divides by zero
OverrunRaises(b) ==
    ActualSpend(b.job_id, b.category) > b.budgeted_amount /\ b.budgeted_amount = 0

OverrunEntry(b) ==
    [category |-> b.category,
     budgeted |-> b.budgeted_amount,
     actual |-> ActualSpend(b.job_id, b.category),
     overrun |-> ActualSpend(b.job_id, b.category) - b.budgeted_amount]

\* the list check_budget_overruns returns when it does not raise
check_budget_overruns(job_id) ==
    LET rows == get_budgets_by_job(job_id)
        over == SelectSeq(rows, LAMBDA b : ActualSpend(b.job_id, b.category) > b.budgeted_amount)
    IN [i \in 1..Len(over) |-> OverrunEntry(over[i])]

CheckBudgetOverrunsRaises(job_id) == \E b \in budgets : b.job_id = job_id /\ OverrunRaises(b)

\* the existence query comparing the whole message with the category instead of searching it
ExistingBudgetAlert_ExactMatch(rows, job_id, category) ==
    {a \in rows : /\ a.job_id = job_id
                  /\ a.alert_type = "budget_overrun"
                  /\ a.message = CategoryValue(category)
                  /\ a.is_acknowledged = FALSE}

\* the existence query without the is_acknowledged filter
ExistingBudgetAlert_AnyState(rows, job_id, category) ==
    {a \in rows : /\ a.job_id = job_id
                  /\ a.alert_type = "budget_overrun"
                  /\ MessageContains(a.message, CategoryValue(category))}

\* the existence query of check_and_create_budget_alerts
ExistingBudgetAlert(rows, job_id, category) ==
    {a \in rows : /\ a.job_id = job_id
                  /\ a.alert_type = "budget_overrun"
                  /\ MessageContains(a.message, CategoryValue(category))
                  /\ a.is_acknowledged = FALSE}

create_alert(rows, job_id, alert_type, message, severity) ==
    rows \cup {[id |-> NextId(rows), job_id |-> job_id, alert_type |-> alert_type,
                message |-> message, severity |-> severity, is_acknowledged |-> FALSE]}

\* the loop of check_and_create_budget_alerts over the overrun list, from entry i on
RECURSIVE BudgetAlertLoop(_, _, _, _)
BudgetAlertLoop(rows, job_id, overruns, i) ==
    IF i > Len(overruns) THEN rows
    ELSE IF ExistingBudgetAlert(rows, job_id, overruns[i].category) = {}
         THEN BudgetAlertLoop(create_alert(rows, job_id, "budget_overrun",
                                           OverrunMessage(overruns[i]), OverrunSeverity(overruns[i])),
                              job_id, overruns, i + 1)
         ELSE BudgetAlertLoop(rows, job_id, overruns, i + 1)

(***************************************************************************)
(* budget_check.py: the status evaluation.                                 *)
(***************************************************************************)
\* alert_thresholds of create_default_alert_config, in hundredths
DefaultThresholds == [warning |-> 80, critical |-> 95, exceeded |-> 100]

\* percentage_used = (actual / budget) if budget > 0 else 0, as a fraction num/den
PercentageUsed(actual_amount, budget_amount) ==
    IF budget_amount > 0 THEN [num |-> actual_amount, den |-> budget_amount]
    ELSE [num |-> 0, den |-> 1]

\* percentage_used >= threshold, the threshold given in hundredths
AtLeast(p, hundredths) == 100 * p.num >= hundredths * p.den

\* the tier chain with strict comparisons
_get_alert_level_Strict(percentage_used) ==
    IF 100 * percentage_used.num > DefaultThresholds.exceeded * percentage_used.den THEN "exceeded"
    ELSE IF 100 * percentage_used.num > DefaultThresholds.critical * percentage_used.den THEN "critical"
    ELSE IF 100 * percentage_used.num > DefaultThresholds.warning * percentage_used.den THEN "warning"
    ELSE "normal"

_get_alert_level(percentage_used) ==
    IF AtLeast(percentage_used, DefaultThresholds.exceeded) THEN "exceeded"
    ELSE IF AtLeast(percentage_used, DefaultThresholds.critical) THEN "critical"
    ELSE IF AtLeast(percentage_used, DefaultThresholds.warning) THEN "warning"
    ELSE "normal"

\* the budget_status entry check_job_budgets computes for one budget row
BudgetStatus(b) ==
    LET actual == ActualSpend(b.job_id, b.category)
        used == PercentageUsed(actual, b.budgeted_amount)
    IN [budget_amount |-> b.budgeted_amount,
        actual_amount |-> actual,
        percentage_used |-> used,
        alert_level |-> _get_alert_level(used),
        over_budget |-> actual > b.budgeted_amount]

(***************************************************************************)
(* Values fixed while a specification does not use them.                   *)
(***************************************************************************)
InitialJobs == {[id |-> 1, job_code |-> "J1"], [id |-> 2, job_code |-> "J2"]}

\* job ids a request may name: the existing ones and one that does not exist
JobIdInputs == {j.id : j \in InitialJobs} \cup {3}

NoLedger == <<>>

NoRules == [cell_mappings |-> <<>>]

NoProbe == [budget |-> 0, actual |-> 0]

NoProcess == <<>>

Called(rec) == lastCall' = rec

(***************************************************************************)
(* Operations on the store.                                                *)
(***************************************************************************)
get_job_by_id(job_id) == {j \in jobs : j.id = job_id}

get_job_by_code(job_code) == {j \in jobs : j.job_code = job_code}

\* a create_budget that skips the test for an existing budget of the category
create_budget_Unchecked(rows, job_id, category, amount) ==
    IF get_job_by_id(job_id) = {}
    THEN [status |-> 404, budgets |-> rows]
    ELSE [status |-> 200,
          budgets |-> rows \cup {[id |-> NextId(rows), job_id |-> job_id,
                                  category |-> category, budgeted_amount |-> amount]}]

\* main.py create_budget: 404 for an unknown job, 400 for a duplicate category, else
\* crud.create_budget; the response status and the budget rows after the request
create_budget(rows, job_id, category, amount) ==
    IF get_job_by_id(job_id) = {}
    THEN [status |-> 404, budgets |-> rows]
    ELSE IF \E existing \in rows : existing.job_id = job_id /\ existing.category = category
    THEN [status |-> 400, budgets |-> rows]
    ELSE [status |-> 200,
          budgets |-> rows \cup {[id |-> NextId(rows), job_id |-> job_id,
                                  category |-> category, budgeted_amount |-> amount]}]

\* POST /api/budget/create
CreateBudget(job_id, category, amount) ==
    LET response == create_budget(budgets, job_id, category, amount)
    IN /\ response.status = 200 => Cardinality(budgets) < MaxBudgets
       /\ budgets' = response.budgets
       /\ Called([op |-> "create_budget"])
       /\ UNCHANGED <<invoices, pc, jobs, expenses, alerts, ledgerVars, probe>>

\* crud.create_expense
CreateExpense(job_id, category, amount) ==
    /\ BagCardinality(expenses) < MaxExpenses
    /\ expenses' = expenses (+) SetToBag({[job_id |-> job_id, category |-> category, amount |-> amount]})
    /\ Called([op |-> "create_expense"])
    /\ UNCHANGED <<invoices, pc, jobs, budgets, alerts, ledgerVars, probe>>

\* crud.acknowledge_alert
AcknowledgeAlert(alert_id) ==
    /\ IF \E a \in alerts : a.id = alert_id
       THEN /\ alerts' = {IF a.id = alert_id THEN [a EXCEPT !.is_acknowledged = TRUE] ELSE a : a \in alerts}
            /\ Called([op |-> "acknowledge_alert"])
       ELSE /\ UNCHANGED alerts
            /\ Called([op |-> "acknowledge_alert"])
    /\ UNCHANGED <<invoices, pc, jobs, budgets, expenses, ledgerVars, probe>>

\* True when the call before this one was a check_and_create_budget_alerts of the same job that returned
RepeatedCheck(job_id) ==
    /\ lastCall.op = "check_and_create_budget_alerts"
    /\ lastCall.job_id = job_id
    /\ lastCall.result = "returned"

\* crud.check_and_create_budget_alerts, with check_budget_overruns evaluated first
CheckAndCreateBudgetAlerts(job_id) ==
    /\ IF CheckBudgetOverrunsRaises(job_id)
       THEN /\ UNCHANGED alerts
            /\ Called([op |-> "check_and_create_budget_alerts", job_id |-> job_id,
                       result |-> "ZeroDivisionError", created |-> {}, repeated |-> RepeatedCheck(job_id)])
       ELSE LET after == BudgetAlertLoop(alerts, job_id, check_budget_overruns(job_id), 1)
            IN /\ Cardinality(after) <= MaxAlerts
               /\ alerts' = after
               /\ Called([op |-> "check_and_create_budget_alerts", job_id |-> job_id,
                          result |-> "returned", created |-> {a.id : a \in after \ alerts},
                          repeated |-> RepeatedCheck(job_id)])
    /\ UNCHANGED <<invoices, pc, jobs, budgets, expenses, ledgerVars, probe>>

Init ==
    /\ jobs = InitialJobs
    /\ budgets = {}
    /\ expenses = EmptyBag
    /\ alerts = {}
    /\ invoices = {}
    /\ ledger = NoLedger
    /\ update_rules = NoRules
    /\ pc = NoProcess
    /\ probe = NoProbe
    /\ lastCall = NoCall

Next ==
    \/ \E t \in BudgetTargets, a \in BudgetAmounts : CreateBudget(t[1], t[2], a)
    \/ \E t \in BudgetTargets, a \in ExpenseAmounts : t[1] \in {x.id : x \in jobs} /\ CreateExpense(t[1], t[2], a)
    \/ \E i \in 1..(MaxAlerts + 1) : AcknowledgeAlert(i)
    \/ \E j \in {x.id : x \in jobs} : CheckAndCreateBudgetAlerts(j)

Spec == Init /\ [][Next]_vars

(***************************************************************************)
(* Properties of the alert store.                                          *)
(***************************************************************************)
\* the alert was created for this budget category: its message starts "Budget overrun in <category>:"
IsAlertFor(a, category) ==
    LET head == OverrunPrefix \o CategoryValue(category) \o <<":">>
    IN /\ a.alert_type = "budget_overrun"
       /\ Len(a.message) >= Len(head)
       /\ SubSeq(a.message, 1, Len(head)) = head

LiveAlertsFor(job_id, category) ==
    {a \in alerts : a.job_id = job_id /\ ~a.is_acknowledged /\ IsAlertFor(a, category)}

OverrunCategories(job_id) ==
    {b.category : b \in {x \in budgets : x.job_id = job_id /\ ActualSpend(job_id, x.category) > x.budgeted_amount}}

CheckReturned == lastCall.op = "check_and_create_budget_alerts" /\ lastCall.result = "returned"

\* C1: under sequential execution there is at most one unacknowledged budget_overrun alert per
\* (job, budget category); a second check_and_create_budget_alerts in a row for the same job creates
\* no alert and leaves exactly one live alert per overrun category.
C1_OneLiveAlertPerCategory ==
    /\ \A j \in JobIdInputs, c \in ExpenseCategory : Cardinality(LiveAlertsFor(j, c)) <= 1
    /\ (CheckReturned /\ lastCall.repeated) =>
          /\ lastCall.created = {}
          /\ \A c \in OverrunCategories(lastCall.job_id) : Cardinality(LiveAlertsFor(lastCall.job_id, c)) = 1

C1_Witness ==
    /\ CheckReturned
    /\ lastCall.repeated
    /\ lastCall.created = {}
    /\ \E c \in OverrunCategories(lastCall.job_id) :
          /\ Cardinality(LiveAlertsFor(lastCall.job_id, c)) = 1
          /\ \E a \in alerts : a.is_acknowledged /\ a.job_id = lastCall.job_id /\ IsAlertFor(a, c)

C3_ZeroBudgetNeverFails ==
    /\ lastCall.op = "check_and_create_budget_alerts" => lastCall.result # "ZeroDivisionError"
    /\ \A b \in budgets :
          b.budgeted_amount = 0 =>
              /\ BudgetStatus(b).percentage_used.num = 0
              /\ BudgetStatus(b).alert_level = "normal"

(***************************************************************************)
(* The tier function on its own: the arguments are drawn at the start      *)
(* and _get_alert_level is applied to the percentage used.                 *)
(***************************************************************************)
GetAlertLevel ==
    /\ Called([op |-> "_get_alert_level",
               result |-> _get_alert_level(PercentageUsed(probe.actual, probe.budget))])
    /\ UNCHANGED <<invoices, pc, storeVars, ledgerVars, probe>>

InitTier ==
    /\ jobs = InitialJobs
    /\ budgets = {}
    /\ expenses = EmptyBag
    /\ alerts = {}
    /\ invoices = {}
    /\ ledger = NoLedger
    /\ update_rules = NoRules
    /\ pc = NoProcess
    /\ probe \in [budget : 0..MaxBudgetAmount, actual : 0..MaxActualAmount]
    /\ lastCall = NoCall

NextTier == GetAlertLevel

SpecTier == InitTier /\ [][NextTier]_vars

\* C4: with the default thresholds, for budgeted > 0 and actual >= 0 the tier is exceeded iff
\* actual/budgeted >= 1.00, critical iff 0.95 <= actual/budgeted < 1.00, warning iff
\* 0.80 <= actual/budgeted < 0.95 and normal otherwise.
C4_TierByRatio ==
    (lastCall.op = "_get_alert_level" /\ probe.budget > 0) =>
        LET a == probe.actual
            b == probe.budget
            tier == lastCall.result
        IN /\ tier = "exceeded" <=> a >= b
           /\ tier = "critical" <=> (95 * b <= 100 * a /\ a < b)
           /\ tier = "warning" <=> (80 * b <= 100 * a /\ 100 * a < 95 * b)
           /\ tier = "normal" <=> 100 * a < 80 * b

C4_Witness ==
    /\ lastCall.op = "_get_alert_level"
    /\ probe.budget > 0
    /\ 100 * probe.actual = 95 * probe.budget
    /\ lastCall.result = "critical"

(***************************************************************************)
(* update_cvr.py: the spreadsheet ledger.                                  *)
(*                                                                         *)
(* A cell value is None, a number or a string.  A string is a sequence of  *)
(* tokens; a formula is a string whose first token is "=".  A percentage   *)
(* text such as "40.0%" carries its tenths in n.                           *)
(***************************************************************************)
None == [t |-> "none", n |-> 0, s |-> <<>>]

Num(x) == [t |-> "num", n |-> x, s |-> <<>>]

Str(tokens) == [t |-> "str", n |-> 0, s |-> tokens]

FormulaCell == Str(<<"=", "SUM(C6:C9)">>)

\* isinstance(value, str) and value.startswith('=')
IsFormula(v) == v.t = "str" /\ Len(v.s) > 0 /\ v.s[1] = "="

\* isinstance(value, (int, float))
IsNumber(v) == v.t = "num"

\* Python truthiness of a cell value, as used by "value or 0"
Truthy(v) == (v.t = "num" /\ v.n # 0) \/ (v.t = "str" /\ v.s # <<>>)

OrZero(v) == IF Truthy(v) THEN v ELSE Num(0)

\* the cells of a sheet the updater and the extractor touch
Cells == {"A1", "C3", "C4", "C5", "C6", "C7", "C8", "C9", "C10", "C11", "C12",
          "E1", "E2", "E3", "E4", "F2", "F3", "F4"}

EmptySheet == [c \in Cells |-> None]

\* _setup_default_cvr_structure: the title in A1 and 0 in C3..C12 (the label columns A and B are left out)
DefaultStructure ==
    [c \in Cells |->
        IF c = "A1" THEN Str(<<"Cost Value Reconciliation">>)
        ELSE IF c \in {"C3", "C4", "C5", "C6", "C7", "C8", "C9", "C10", "C11", "C12"} THEN Num(0)
        ELSE None]

JobCodes == {"J1", "J2"}

\* f"Job_{job_code}"
SheetName(job_code) == <<"Job_", job_code>>

TemplateName == <<"Template">>

SummaryName == <<"Summary">>

\* cell_mappings of create_default_rules
DefaultCellMappings ==
    [k \in {"total_contract_value", "total_invoiced", "total_costs", "material_costs", "labour_costs",
            "plant_costs", "subcontract_costs", "projected_margin", "variations_approved",
            "variations_pending"} |->
        CASE k = "total_contract_value" -> "C3"
          [] k = "total_invoiced" -> "C4"
          [] k = "total_costs" -> "C5"
          [] k = "material_costs" -> "C6"
          [] k = "labour_costs" -> "C7"
          [] k = "plant_costs" -> "C8"
          [] k = "subcontract_costs" -> "C9"
          [] k = "projected_margin" -> "C10"
          [] k = "variations_approved" -> "C11"
          [] k = "variations_pending" -> "C12"]

\* cost_categories of create_default_rules, lower-cased as _calculate_category_cost compares them
DefaultCostCategories ==
    [c \in {"material", "labour", "plant", "subcontract"} |->
        CASE c = "material" -> {<<"m","a","t","e","r","i","a","l">>, <<"m","a","t","e","r","i","a","l","s">>,
                                <<"m","a","t">>}
          [] c = "labour" -> {<<"l","a","b","o","u","r">>, <<"l","a","b","o","r">>, <<"l","a","b">>,
                              <<"w","a","g","e","s">>}
          [] c = "plant" -> {<<"p","l","a","n","t">>, <<"m","a","c","h","i","n","e","r","y">>,
                             <<"e","q","u","i","p","m","e","n","t">>, <<"e","q","u","i","p">>}
          [] c = "subcontract" -> {<<"s","u","b","c","o","n","t","r","a","c","t">>, <<"s","u","b">>,
                                   <<"s","u","b","c","o","n","t","r","a","c","t","o","r">>, <<"s","c">>}]

\* self.update_rules = {} of __init__, with the defaults the .get calls supply
EmptyRules ==
    [cell_mappings |-> <<>>,
     cost_categories |-> [c \in {"material", "labour", "plant", "subcontract"} |-> {}],
     only_positive_values |-> TRUE,
     preserve_formulas |-> TRUE]

\* default_rules of create_default_rules
DefaultRules ==
    [cell_mappings |-> DefaultCellMappings,
     cost_categories |-> DefaultCostCategories,
     only_positive_values |-> TRUE,
     preserve_formulas |-> TRUE]

\* self.update_rules.get('cell_mappings', {}).get(key): the address, or "" when the key is unmapped
CellAddress(rules, key) ==
    IF key \in DOMAIN rules.cell_mappings THEN rules.cell_mappings[key] ELSE ""

\* self.update_rules.get('cell_mappings', {}).get(key, fallback)
CellAddressOr(rules, key, fallback) ==
    IF key \in DOMAIN rules.cell_mappings THEN rules.cell_mappings[key] ELSE fallback

\* _update_cell: [ok, sheet] when it returns, ok = "raise" when the comparison value < 0 fails on None
_update_cell(sheet, rules, cell_key, value) ==
    LET cell_address == CellAddress(rules, cell_key)
    IN IF cell_address = "" THEN [ok |-> "false", sheet |-> sheet]
       ELSE IF rules.only_positive_values /\ ~IsNumber(value) THEN [ok |-> "raise", sheet |-> sheet]
       ELSE IF rules.only_positive_values /\ value.n < 0 THEN [ok |-> "false", sheet |-> sheet]
       ELSE IF rules.preserve_formulas /\ IsFormula(sheet[cell_address]) THEN [ok |-> "false", sheet |-> sheet]
       ELSE [ok |-> "true", sheet |-> [sheet EXCEPT ![cell_address] = value]]

\* keyword.lower() in expense_type.lower()
KeywordIn(keyword, expense_type) ==
    \E i \in 1..(Len(expense_type) - Len(keyword) + 1) :
        SubSeq(expense_type, i, i + Len(keyword) - 1) = keyword

RECURSIVE SumAmounts(_, _)
SumAmounts(breakdown, keys) ==
    IF keys = {} THEN 0
    ELSE LET k == CHOOSE x \in keys : TRUE
         IN breakdown[k] + SumAmounts(breakdown, keys \ {k})

\* _calculate_category_cost
_calculate_category_cost(rules, expense_breakdown, category) ==
    SumAmounts(expense_breakdown,
               {k \in DOMAIN expense_breakdown :
                   \E keyword \in rules.cost_categories[category] : KeywordIn(keyword, k)})

\* _get_or_create_job_sheet: the workbook with the job's sheet in it
_get_or_create_job_sheet(wb, job_code) ==
    IF SheetName(job_code) \in DOMAIN wb THEN wb
    ELSE IF TemplateName \in DOMAIN wb
    THEN [n \in DOMAIN wb \cup {SheetName(job_code)} |->
             IF n = SheetName(job_code) THEN wb[TemplateName] ELSE wb[n]]
    ELSE [n \in DOMAIN wb \cup {SheetName(job_code)} |->
             IF n = SheetName(job_code) THEN DefaultStructure ELSE wb[n]]

\* f"Last updated: {datetime.now().strftime('%Y-%m-%d %H:%M:%S')}"
LastUpdatedStamp == Str(<<"Last updated: ", "timestamp">>)

(***************************************************************************)
(* The aggregates the update calls are given (pnl_data['data'][job_code]   *)
(* and invoice_data['data'][job_code]), by name.                           *)
(***************************************************************************)
PnlBundles == {"P_ok", "P_neg", "P_bad"}

InvoiceBundles == {"I_ok", "I_neg"}

PnlJobData(name) ==
    CASE name = "P_ok" ->
            [total_expenses |-> Num(75),
             expense_breakdown |->
                 (<<"m","a","t","e","r","i","a","l","s">> :> 30) @@
                 (<<"l","a","b","o","u","r"," ","w","a","g","e","s">> :> 40) @@
                 (<<"m","i","s","c">> :> 5)]
      [] name = "P_neg" ->
            [total_expenses |-> Num(-5),
             expense_breakdown |-> (<<"m","a","t","e","r","i","a","l","s">> :> (-5))]
      [] name = "P_bad" ->
            [total_expenses |-> None,
             expense_breakdown |-> <<>>]

InvoiceJobData(name) ==
    CASE name = "I_ok" ->
            [total_invoiced |-> 50, total_paid |-> 20, outstanding_balance |-> 30, payment_rate |-> 400]
      [] name = "I_neg" ->
            [total_invoiced |-> -5, total_paid |-> -2, outstanding_balance |-> -3, payment_rate |-> 0]

\* the fields update_cvr_with_pnl updates, in its order, with the values it computes
PnlItems(rules, job_data) ==
    <<[key |-> "total_costs", value |-> job_data.total_expenses],
      [key |-> "material_costs",
       value |-> Num(_calculate_category_cost(rules, job_data.expense_breakdown, "material"))],
      [key |-> "labour_costs",
       value |-> Num(_calculate_category_cost(rules, job_data.expense_breakdown, "labour"))],
      [key |-> "plant_costs",
       value |-> Num(_calculate_category_cost(rules, job_data.expense_breakdown, "plant"))],
      [key |-> "subcontract_costs",
       value |-> Num(_calculate_category_cost(rules, job_data.expense_breakdown, "subcontract"))]>>

\* the chain of "if self._update_cell(...): updates.append(...)" statements, from item i on
RECURSIVE ApplyItems(_, _, _, _, _)
ApplyItems(sheet, rules, items, i, updates) ==
    IF i > Len(items) THEN [raised |-> FALSE, sheet |-> sheet, updates |-> updates]
    ELSE LET r == _update_cell(sheet, rules, items[i].key, items[i].value)
         IN IF r.ok = "raise" THEN [raised |-> TRUE, sheet |-> sheet, updates |-> updates]
            ELSE IF r.ok = "true"
            THEN ApplyItems(r.sheet, rules, items, i + 1, Append(updates, items[i]))
            ELSE ApplyItems(r.sheet, rules, items, i + 1, updates)

Failure(file, error) == [file |-> file, result |-> [success |-> FALSE, error |-> error, updates |-> <<>>]]

Success(file, updates) == [file |-> file, result |-> [success |-> TRUE, error |-> "", updates |-> updates]]

\* an update that saves the workbook before it looks the job up in the aggregates
update_cvr_with_pnl_SavesFirst(file, rules, pnl_data, job_code) ==
    LET wb == _get_or_create_job_sheet(file, job_code)
        name == SheetName(job_code)
    IN IF job_code \notin DOMAIN pnl_data THEN Failure(wb, "not found in P&L data")
       ELSE LET done == ApplyItems(wb[name], rules, PnlItems(rules, PnlJobData(pnl_data[job_code])), 1, <<>>)
            IN IF done.raised THEN Failure(file, "TypeError")
               ELSE Success([wb EXCEPT ![name] = [done.sheet EXCEPT !["A1"] = LastUpdatedStamp]],
                            done.updates)

\* update_cvr_with_pnl: the file after the call and the dictionary it returns
update_cvr_with_pnl(file, rules, pnl_data, job_code) ==
    LET wb == _get_or_create_job_sheet(file, job_code)
        name == SheetName(job_code)
    IN IF job_code \notin DOMAIN pnl_data THEN Failure(file, "not found in P&L data")
       ELSE LET done == ApplyItems(wb[name], rules, PnlItems(rules, PnlJobData(pnl_data[job_code])), 1, <<>>)
            IN IF done.raised THEN Failure(file, "TypeError")
               ELSE Success([wb EXCEPT ![name] = [done.sheet EXCEPT !["A1"] = LastUpdatedStamp]],
                            done.updates)

\* the payment tracking block with total_paid and outstanding_balance in each other's cell
PaymentBlock_Swapped(sheet, job_data) ==
    [sheet EXCEPT !["E1"] = Str(<<"Payment Tracking">>),
                  !["E2"] = Str(<<"Total Paid">>),
                  !["F2"] = Num(job_data.outstanding_balance),
                  !["E3"] = Str(<<"Outstanding Balance">>),
                  !["F3"] = Num(job_data.total_paid),
                  !["E4"] = Str(<<"Payment Rate">>),
                  !["F4"] = [t |-> "str", n |-> job_data.payment_rate, s |-> <<"{:.1f}", "%">>],
                  !["A1"] = LastUpdatedStamp]

\* the payment tracking block and the timestamp written by update_cvr_with_invoice
PaymentBlock(sheet, job_data) ==
    [sheet EXCEPT !["E1"] = Str(<<"Payment Tracking">>),
                  !["E2"] = Str(<<"Total Paid">>),
                  !["F2"] = Num(job_data.total_paid),
                  !["E3"] = Str(<<"Outstanding Balance">>),
                  !["F3"] = Num(job_data.outstanding_balance),
                  !["E4"] = Str(<<"Payment Rate">>),
                  !["F4"] = [t |-> "str", n |-> job_data.payment_rate, s |-> <<"{:.1f}", "%">>],
                  !["A1"] = LastUpdatedStamp]

\* update_cvr_with_invoice: the file after the call and the dictionary it returns
update_cvr_with_invoice(file, rules, invoice_data, job_code) ==
    LET wb == _get_or_create_job_sheet(file, job_code)
        name == SheetName(job_code)
    IN IF job_code \notin DOMAIN invoice_data THEN Failure(file, "not found in Invoice data")
       ELSE LET job_data == InvoiceJobData(invoice_data[job_code])
                first == ApplyItems(wb[name], rules,
                                    <<[key |-> "total_invoiced", value |-> Num(job_data.total_invoiced)]>>,
                                    1, <<>>)
                contract_value == OrZero(first.sheet[CellAddressOr(rules, "total_contract_value", "C3")])
                total_costs == OrZero(first.sheet[CellAddressOr(rules, "total_costs", "C5")])
            IN IF IsNumber(contract_value) /\ contract_value.n > 0
               THEN IF ~IsNumber(total_costs) THEN Failure(file, "TypeError")
                    ELSE LET second == ApplyItems(first.sheet, rules,
                                           <<[key |-> "projected_margin",
                                              value |-> Num(contract_value.n - total_costs.n)]>>,
                                           1, first.updates)
                         IN Success([wb EXCEPT ![name] = PaymentBlock(second.sheet, job_data)],
                                    second.updates)
               ELSE Success([wb EXCEPT ![name] = PaymentBlock(first.sheet, job_data)], first.updates)

(***************************************************************************)
(* update_cvr.py: the dashboard extractor.                                 *)
(***************************************************************************)
Range(f) == {f[x] : x \in DOMAIN f}

\* (a / b * 100) if b > 0 else 0, as a fraction
PercentOf(a, b) == IF b > 0 THEN [num |-> 100 * a, den |-> b] ELSE [num |-> 0, den |-> 1]

\* the loop over cell_mappings: None and formulas read as 0, numbers as float(value), other text as 0
MappedValue(v) == IF IsNumber(v) THEN v.n ELSE 0

\* the payment rate text written by the updater parses; any other text makes float() raise
PaymentRateRaises(v) == v.t = "str" /\ v.s # <<>> /\ v.s # <<"{:.1f}", "%">>

\* the payment rate in tenths of a percent: float(cell) of a number, the parsed text, 0 for an empty cell
PaymentRateValue(v) == IF v.t = "num" THEN 10 * v.n ELSE IF v.t = "str" /\ v.s # <<>> THEN v.n ELSE 0

\* 'Last updated:' in last_updated
LastUpdatedValue(v) ==
    IF v.t = "str" /\ Len(v.s) = 2 /\ v.s[1] = "Last updated: " THEN v.s[2] ELSE "Unknown"

\* get_cvr_dashboard_data
get_cvr_dashboard_data(file, rules, job_code) ==
    IF SheetName(job_code) \notin DOMAIN file THEN [success |-> FALSE]
    ELSE LET sheet == file[SheetName(job_code)]
             mapped == [k \in DOMAIN rules.cell_mappings |-> MappedValue(sheet[rules.cell_mappings[k]])]
             get(k) == IF k \in DOMAIN mapped THEN mapped[k] ELSE 0
             contract_value == get("total_contract_value")
             total_costs == get("total_costs")
             total_invoiced == get("total_invoiced")
             failed == PaymentRateRaises(sheet["F4"])
         IN [success |-> TRUE,
             mapped |-> mapped,
             cost_percentage |-> PercentOf(total_costs, contract_value),
             invoiced_percentage |-> PercentOf(total_invoiced, contract_value),
             gross_margin |-> total_invoiced - total_costs,
             gross_margin_percentage |-> PercentOf(total_invoiced - total_costs, total_invoiced),
             total_paid |-> IF failed THEN Num(0) ELSE OrZero(sheet["F2"]),
             outstanding_balance |-> IF failed THEN Num(total_invoiced) ELSE OrZero(sheet["F3"]),
             payment_rate |-> IF failed THEN 0 ELSE PaymentRateValue(sheet["F4"]),
             last_updated |-> LastUpdatedValue(sheet["A1"])]

(***************************************************************************)
(* update_cvr.py: the batch update.                                        *)
(***************************************************************************)
\* the body of the loop of update_multiple_jobs for one job code
BatchStep(acc, rules, pnl_data, invoice_data, job_code) ==
    LET in_pnl == job_code \in DOMAIN pnl_data
        in_invoice == job_code \in DOMAIN invoice_data
        pnl_result == update_cvr_with_pnl(acc.file, rules, pnl_data, job_code)
        file1 == IF in_pnl THEN pnl_result.file ELSE acc.file
        pnl_updated == in_pnl /\ pnl_result.result.success
        errors1 == IF in_pnl /\ ~pnl_result.result.success
                   THEN Append(acc.errors, [kind |-> "P&L", job_code |-> job_code])
                   ELSE acc.errors
        invoice_result == update_cvr_with_invoice(file1, rules, invoice_data, job_code)
        file2 == IF in_invoice THEN invoice_result.file ELSE file1
        invoice_updated == in_invoice /\ invoice_result.result.success
        errors2 == IF in_invoice /\ ~invoice_result.result.success
                   THEN Append(errors1, [kind |-> "Invoice", job_code |-> job_code])
                   ELSE errors1
    IN [file |-> file2,
        job_results |-> (job_code :> [pnl_updated |-> pnl_updated, invoice_updated |-> invoice_updated])
                            @@ acc.job_results,
        errors |-> errors2,
        updated_jobs |-> IF pnl_updated \/ invoice_updated
                         THEN Append(acc.updated_jobs, job_code) ELSE acc.updated_jobs]

\* a loop that stops at the first job with an error
RECURSIVE BatchLoop_StopsAtFirstError(_, _, _, _, _, _)
BatchLoop_StopsAtFirstError(acc, rules, pnl_data, invoice_data, order, i) ==
    IF i > Len(order) \/ Len(acc.errors) > 0 THEN acc
    ELSE BatchLoop_StopsAtFirstError(BatchStep(acc, rules, pnl_data, invoice_data, order[i]),
                                     rules, pnl_data, invoice_data, order, i + 1)

\* "for job_code in all_jobs", the set iterated in the given order, from position i on
RECURSIVE BatchLoop(_, _, _, _, _, _)
BatchLoop(acc, rules, pnl_data, invoice_data, order, i) ==
    IF i > Len(order) THEN acc
    ELSE BatchLoop(BatchStep(acc, rules, pnl_data, invoice_data, order[i]),
                   rules, pnl_data, invoice_data, order, i + 1)

\* a batch that keeps the file only when no update failed
update_multiple_jobs_AllOrNothing(file, rules, pnl_data, invoice_data, order) ==
    LET done == BatchLoop([file |-> file, job_results |-> <<>>, errors |-> <<>>, updated_jobs |-> <<>>],
                          rules, pnl_data, invoice_data, order, 1)
    IN [file |-> IF Len(done.errors) = 0 THEN done.file ELSE file,
        result |-> [success |-> Len(done.errors) = 0,
                    job_results |-> done.job_results,
                    errors |-> done.errors,
                    updated_jobs |-> done.updated_jobs]]

\* update_multiple_jobs: the file after the call and the results dictionary
update_multiple_jobs(file, rules, pnl_data, invoice_data, order) ==
    LET done == BatchLoop([file |-> file, job_results |-> <<>>, errors |-> <<>>, updated_jobs |-> <<>>],
                          rules, pnl_data, invoice_data, order, 1)
    IN [file |-> done.file,
        result |-> [success |-> Len(done.errors) = 0,
                    job_results |-> done.job_results,
                    errors |-> done.errors,
                    updated_jobs |-> done.updated_jobs]]

\* the orders in which a set of job codes can be iterated
Orders(S) == {o \in [1..Cardinality(S) -> S] : Range(o) = S}

(***************************************************************************)
(* The ledger file at the start: one Template sheet, with or without       *)
(* formulas, or a workbook that has no Template sheet.                     *)
(***************************************************************************)
TemplateVariants ==
    {[DefaultStructure EXCEPT !["C3"] = Num(50)],
     [DefaultStructure EXCEPT !["C3"] = Num(100), !["C5"] = FormulaCell, !["C10"] = FormulaCell],
     [DefaultStructure EXCEPT !["C4"] = FormulaCell, !["F2"] = FormulaCell, !["F3"] = FormulaCell,
                              !["F4"] = FormulaCell, !["A1"] = FormulaCell]}

InitialLedgers ==
    {(TemplateName :> t) : t \in TemplateVariants} \cup {(SummaryName :> EmptySheet)}

\* the pnl_data['data'] and invoice_data['data'] dictionaries a call may be given
PnlDataInputs ==
    {("J1" :> "P_ok"),
     ("J1" :> "P_ok") @@ ("J2" :> "P_bad"),
     ("J1" :> "P_neg") @@ ("J2" :> "P_ok")}

InvoiceDataInputs ==
    {("J1" :> "I_ok"),
     ("J1" :> "I_neg") @@ ("J2" :> "I_ok")}

DataOf(data, job_code) == IF job_code \in DOMAIN data THEN data[job_code] ELSE "absent"

UpdateOps == {"update_cvr_with_pnl", "update_cvr_with_invoice", "update_multiple_jobs"}

\* load_update_rules with no rules file present: create_default_rules
LoadUpdateRules ==
    /\ update_rules' = DefaultRules
    /\ Called([op |-> "load_update_rules"])
    /\ UNCHANGED <<invoices, pc, storeVars, ledger, probe>>

UpdateCvrWithPnl(pnl_data, job_code) ==
    LET r == update_cvr_with_pnl(ledger, update_rules, pnl_data, job_code)
    IN /\ ledger' = r.file
       /\ Called([op |-> "update_cvr_with_pnl", job_code |-> job_code,
                  data |-> DataOf(pnl_data, job_code), result |-> r.result])
       /\ UNCHANGED <<invoices, pc, storeVars, update_rules, probe>>

UpdateCvrWithInvoice(invoice_data, job_code) ==
    LET r == update_cvr_with_invoice(ledger, update_rules, invoice_data, job_code)
    IN /\ ledger' = r.file
       /\ Called([op |-> "update_cvr_with_invoice", job_code |-> job_code,
                  data |-> DataOf(invoice_data, job_code), result |-> r.result])
       /\ UNCHANGED <<invoices, pc, storeVars, update_rules, probe>>

UpdateMultipleJobs(pnl_data, invoice_data, order) ==
    LET r == update_multiple_jobs(ledger, update_rules, pnl_data, invoice_data, order)
    IN /\ ledger' = r.file
       /\ Called([op |-> "update_multiple_jobs", pnl_data |-> pnl_data, invoice_data |-> invoice_data,
                  order |-> order, result |-> r.result])
       /\ UNCHANGED <<invoices, pc, storeVars, update_rules, probe>>

GetCvrDashboardData(job_code) ==
    /\ Called([op |-> "get_cvr_dashboard_data", job_code |-> job_code,
               result |-> get_cvr_dashboard_data(ledger, update_rules, job_code),
               after |-> IF lastCall.op \in UpdateOps THEN lastCall ELSE NoCall])
    /\ UNCHANGED <<invoices, pc, storeVars, ledgerVars, probe>>

InitLedger ==
    /\ jobs = InitialJobs
    /\ budgets = {}
    /\ expenses = EmptyBag
    /\ alerts = {}
    /\ invoices = {}
    /\ ledger \in InitialLedgers
    /\ update_rules = EmptyRules
    /\ pc = NoProcess
    /\ probe = NoProbe
    /\ lastCall = NoCall

NextLedger ==
    \/ LoadUpdateRules
    \/ \E d \in PnlDataInputs, j \in JobCodes : UpdateCvrWithPnl(d, j)
    \/ \E d \in InvoiceDataInputs, j \in JobCodes : UpdateCvrWithInvoice(d, j)
    \/ \E p \in PnlDataInputs, v \in InvoiceDataInputs :
          \E o \in Orders(DOMAIN p \cup DOMAIN v) : UpdateMultipleJobs(p, v, o)
    \/ \E j \in JobCodes : GetCvrDashboardData(j)

SpecLedger == InitLedger /\ [][NextLedger]_vars

(***************************************************************************)
(* Properties of the ledger updater.                                       *)
(***************************************************************************)
JobSheets(file) == {n \in DOMAIN file : \E j \in JobCodes : n = SheetName(j)}

IsNegative(v) == IsNumber(v) /\ v.n < 0

SingleUpdateOps == {"update_cvr_with_pnl", "update_cvr_with_invoice"}

\* C5: a cell of a job sheet that holds a formula before an update call holds
\* the same formula after it, whichever cell it is (mapped field cells, the
\* payment tracking block F2, F3, F4 and the timestamp cell A1 included).
C5_FormulaCellsPreserved ==
    [][\A n \in JobSheets(ledger) : \A c \in Cells :
          IsFormula(ledger[n][c]) => ledger'[n][c] = ledger[n][c]]_vars

\* C6: with only_positive_values active, no update call puts a negative
\* number into a cell of a job sheet: a cell that holds a negative number
\* after a step held that number before it.
C6_NoNegativeWritten ==
    [][update_rules.only_positive_values =>
          \A n \in JobSheets(ledger') : \A c \in Cells :
              IsNegative(ledger'[n][c]) => n \in DOMAIN ledger /\ ledger[n][c] = ledger'[n][c]]_vars

\* the fields a single-job call hands to _update_cell whatever the sheet holds
AttemptedItems(call) ==
    IF call.op = "update_cvr_with_pnl" THEN PnlItems(update_rules, PnlJobData(call.data))
    ELSE <<[key |-> "total_invoiced", value |-> Num(InvoiceJobData(call.data).total_invoiced)]>>

\* the field is unmapped, or its write is rejected on the sheet the call works on
IsSkipped(sheet, item) ==
    \/ item.key \notin DOMAIN update_rules.cell_mappings
    \/ item.value.n < 0
    \/ IsFormula(sheet[update_rules.cell_mappings[item.key]])

\* C7: a single-job update whose job is present in the aggregates (with numeric
\* aggregates) returns success=true when fields are skipped, leaves the cell
\* of a skipped field unchanged, and lists a field in updates exactly when
\* the field was not skipped.
C7_SkippedFieldsAreNotErrors ==
    [][(lastCall'.op \in SingleUpdateOps /\ lastCall'.data \notin {"absent", "P_bad"}) =>
          LET call == lastCall'
              name == SheetName(call.job_code)
              before == _get_or_create_job_sheet(ledger, call.job_code)[name]
              items == AttemptedItems(call)
              updates == call.result.updates
          IN /\ call.result.success
             /\ \A i \in DOMAIN items :
                   /\ (IsSkipped(before, items[i]) /\ items[i].key \in DOMAIN update_rules.cell_mappings)
                         => ledger'[name][update_rules.cell_mappings[items[i].key]]
                               = before[update_rules.cell_mappings[items[i].key]]
                   /\ (\E k \in DOMAIN updates : updates[k].key = items[i].key)
                         <=> ~IsSkipped(before, items[i])]_vars

BatchCalled == lastCall.op = "update_multiple_jobs"

ErrorCount(errors, kind, job_code) ==
    Cardinality({k \in DOMAIN errors : errors[k] = [kind |-> kind, job_code |-> job_code]})

PnlFlag(r, j) == j \in DOMAIN r.job_results /\ r.job_results[j].pnl_updated

InvoiceFlag(r, j) == j \in DOMAIN r.job_results /\ r.job_results[j].invoice_updated

\* C8: update_multiple_jobs has a result for exactly the union of the job
\* codes of the two aggregates; success is true exactly when errors is empty,
\* which is exactly when every attempted update succeeded; each failed attempt
\* has exactly one error entry and there are no others; updated_jobs lists,
\* once each, exactly the jobs with pnl_updated or invoice_updated true.
C8_BatchResult ==
    BatchCalled =>
        LET r == lastCall.result
            p == DOMAIN lastCall.pnl_data
            v == DOMAIN lastCall.invoice_data
            updated == {j \in JobCodes : PnlFlag(r, j) \/ InvoiceFlag(r, j)}
        IN /\ DOMAIN r.job_results = p \cup v
           /\ r.success <=> (r.errors = <<>>)
           /\ r.success <=> ((\A j \in p : PnlFlag(r, j)) /\ (\A j \in v : InvoiceFlag(r, j)))
           /\ \A j \in JobCodes :
                 /\ ErrorCount(r.errors, "P&L", j) = IF j \in p /\ ~PnlFlag(r, j) THEN 1 ELSE 0
                 /\ ErrorCount(r.errors, "Invoice", j) = IF j \in v /\ ~InvoiceFlag(r, j) THEN 1 ELSE 0
                 /\ j \notin p => ~PnlFlag(r, j)
                 /\ j \notin v => ~InvoiceFlag(r, j)
           /\ Len(r.errors) = Cardinality({j \in p : ~PnlFlag(r, j)}) + Cardinality({j \in v : ~InvoiceFlag(r, j)})
           /\ Range(r.updated_jobs) = updated
           /\ Len(r.updated_jobs) = Cardinality(updated)

\* a batch over two jobs, one of them in one aggregate only, with a failed and a successful attempt
C8_Witness ==
    /\ BatchCalled
    /\ DOMAIN lastCall.pnl_data # DOMAIN lastCall.invoice_data
    /\ Cardinality(DOMAIN lastCall.result.job_results) = 2
    /\ ~lastCall.result.success
    /\ Len(lastCall.result.errors) >= 1
    /\ Len(lastCall.result.updated_jobs) >= 1

\* the cells a successful update_cvr_with_pnl with these aggregates leaves in the sheet
PnlCellsWritten(sheet, name) ==
    LET items == PnlItems(update_rules, PnlJobData(name))
    IN /\ sheet["A1"] = LastUpdatedStamp
       /\ \A i \in DOMAIN items :
             (items[i].key \in DOMAIN update_rules.cell_mappings /\ items[i].value.n >= 0) =>
                 LET cell == sheet[update_rules.cell_mappings[items[i].key]]
                 IN cell = items[i].value \/ IsFormula(cell)

\* the cells a successful update_cvr_with_invoice with these aggregates leaves in the sheet
InvoiceCellsWritten(sheet, name) ==
    LET job_data == InvoiceJobData(name)
    IN /\ sheet["A1"] = LastUpdatedStamp
       /\ sheet["F2"] = Num(job_data.total_paid)
       /\ sheet["F3"] = Num(job_data.outstanding_balance)
       /\ sheet["F4"].n = job_data.payment_rate
       /\ ("total_invoiced" \in DOMAIN update_rules.cell_mappings /\ job_data.total_invoiced >= 0) =>
             LET cell == sheet[update_rules.cell_mappings["total_invoiced"]]
             IN cell = Num(job_data.total_invoiced) \/ IsFormula(cell)

\* C9: after update_multiple_jobs returns, the file holds the cells written by
\* every attempt flagged as successful, whatever failed in the batch, and every
\* update of every job of either aggregate was attempted (it is flagged as
\* successful or it has an error entry), the failing job's other update included.
C9_NoRollback ==
    BatchCalled =>
        LET r == lastCall.result
        IN /\ \A j \in DOMAIN r.job_results :
                 /\ r.job_results[j].pnl_updated =>
                       /\ SheetName(j) \in DOMAIN ledger
                       /\ PnlCellsWritten(ledger[SheetName(j)], lastCall.pnl_data[j])
                 /\ r.job_results[j].invoice_updated =>
                       /\ SheetName(j) \in DOMAIN ledger
                       /\ InvoiceCellsWritten(ledger[SheetName(j)], lastCall.invoice_data[j])
           /\ \A j \in DOMAIN lastCall.pnl_data :
                 PnlFlag(r, j) \/ ErrorCount(r.errors, "P&L", j) > 0
           /\ \A j \in DOMAIN lastCall.invoice_data :
                 InvoiceFlag(r, j) \/ ErrorCount(r.errors, "Invoice", j) > 0

\* the first job's P&L update failed, its invoice update and the next job's P&L update succeeded
C9_Witness ==
    /\ BatchCalled
    /\ Len(lastCall.order) = 2
    /\ lastCall.order[1] \in DOMAIN lastCall.pnl_data
    /\ ~PnlFlag(lastCall.result, lastCall.order[1])
    /\ InvoiceFlag(lastCall.result, lastCall.order[1])
    /\ PnlFlag(lastCall.result, lastCall.order[2])
    /\ update_rules = DefaultRules
    /\ ledger[SheetName(lastCall.order[2])]["C5"] = Num(75)

PnlNonNegative(name) ==
    LET d == PnlJobData(name)
    IN /\ IsNumber(d.total_expenses) /\ d.total_expenses.n >= 0
       /\ \A k \in DOMAIN d.expense_breakdown : d.expense_breakdown[k] >= 0

InvoiceNonNegative(name) ==
    LET d == InvoiceJobData(name)
    IN d.total_invoiced >= 0 /\ d.total_paid >= 0 /\ d.outstanding_balance >= 0

\* the aggregates the last update call wrote with success into the job's sheet, "absent" when it did not
WrittenPnl(call, j) ==
    IF call.op = "update_cvr_with_pnl" /\ call.job_code = j /\ call.result.success THEN call.data
    ELSE IF call.op = "update_multiple_jobs" /\ PnlFlag(call.result, j) THEN call.pnl_data[j]
    ELSE "absent"

WrittenInvoice(call, j) ==
    IF call.op = "update_cvr_with_invoice" /\ call.job_code = j /\ call.result.success THEN call.data
    ELSE IF call.op = "update_multiple_jobs" /\ InvoiceFlag(call.result, j) THEN call.invoice_data[j]
    ELSE "absent"

\* the value read for a field: 0 for a cell holding a formula or None, the written value otherwise
ReadBack(cell, written) == IF IsFormula(cell) \/ cell = None THEN 0 ELSE written

\* C10: get_cvr_dashboard_data right after a successful update of the same job
\* with non-negative aggregates returns, for every mapped field the update
\* writes, the written value (0 where the cell holds a formula or None), and
\* the written total_paid and outstanding_balance.
C10_RoundTrip ==
    (lastCall.op = "get_cvr_dashboard_data" /\ lastCall.result.success) =>
        LET j == lastCall.job_code
            sheet == ledger[SheetName(j)]
            read == lastCall.result
            pnl == WrittenPnl(lastCall.after, j)
            invoice == WrittenInvoice(lastCall.after, j)
        IN /\ (pnl # "absent" /\ PnlNonNegative(pnl)) =>
                 LET items == PnlItems(update_rules, PnlJobData(pnl))
                 IN \A i \in DOMAIN items :
                       items[i].key \in DOMAIN update_rules.cell_mappings =>
                           read.mapped[items[i].key]
                               = ReadBack(sheet[update_rules.cell_mappings[items[i].key]], items[i].value.n)
           /\ (invoice # "absent" /\ InvoiceNonNegative(invoice)) =>
                 /\ "total_invoiced" \in DOMAIN update_rules.cell_mappings =>
                       read.mapped["total_invoiced"]
                           = ReadBack(sheet[update_rules.cell_mappings["total_invoiced"]],
                                      InvoiceJobData(invoice).total_invoiced)
                 /\ read.total_paid = Num(InvoiceJobData(invoice).total_paid)
                 /\ read.outstanding_balance = Num(InvoiceJobData(invoice).outstanding_balance)

\* a read after a batch that wrote both aggregates of the job: costs and payments come back, the formula cell reads 0
C10_Witness ==
    /\ lastCall.op = "get_cvr_dashboard_data"
    /\ lastCall.result.success
    /\ WrittenPnl(lastCall.after, lastCall.job_code) = "P_ok"
    /\ WrittenInvoice(lastCall.after, lastCall.job_code) = "I_ok"
    /\ update_rules = DefaultRules
    /\ IsFormula(ledger[SheetName(lastCall.job_code)]["C4"])
    /\ lastCall.result.mapped["total_invoiced"] = 0
    /\ lastCall.result.mapped["total_costs"] = 75
    /\ lastCall.result.mapped["labour_costs"] = 40
    /\ lastCall.result.total_paid = Num(20)
    /\ lastCall.result.outstanding_balance = Num(30)

(***************************************************************************)
(* update_cvr.py: the summary over all job sheets. A sheet name is a       *)
(* sequence of tokens; a job code that itself contains 'Job_' gives a      *)
(* name with that token more than once.                                    *)
(***************************************************************************)
\* sheet.startswith('Job_')
IsJobSheetName(sheet_name) == Len(sheet_name) > 0 /\ sheet_name[1] = "Job_"

NotJobPrefix(token) == token # "Job_"

\* sheet_name.replace('Job_', ''): every occurrence is removed
StripJobPrefix(sheet_name) == SelectSeq(sheet_name, NotJobPrefix)[1]

\* data.get(key, 0) on the dictionary get_cvr_dashboard_data returns
DataGet(data, key) == IF key \in DOMAIN data.mapped THEN data.mapped[key] ELSE 0

\* the entry appended to summary_data['jobs'] for one extracted sheet
SummaryEntry(job_code, data) ==
    [job_code |-> job_code,
     contract_value |-> DataGet(data, "total_contract_value"),
     invoiced |-> DataGet(data, "total_invoiced"),
     costs |-> DataGet(data, "total_costs"),
     margin |-> data.gross_margin,
     margin_percentage |-> data.gross_margin_percentage,
     last_updated |-> data.last_updated]

\* the loop "for sheet_name in job_sheets" over the sheets not yet visited
RECURSIVE SummaryLoop(_, _, _, _)
SummaryLoop(file, rules, names, acc) ==
    IF names = {} THEN acc
    ELSE LET sheet_name == CHOOSE n \in names : \A m \in names : Len(n) <= Len(m)
             job_code == StripJobPrefix(sheet_name)
             job_data == get_cvr_dashboard_data(file, rules, job_code)
             next == IF job_data.success
                     THEN [total_contract_value |->
                               acc.total_contract_value + DataGet(job_data, "total_contract_value"),
                           total_invoiced |-> acc.total_invoiced + DataGet(job_data, "total_invoiced"),
                           total_costs |-> acc.total_costs + DataGet(job_data, "total_costs"),
                           total_margin |-> acc.total_margin + job_data.gross_margin,
                           jobs |-> Append(acc.jobs, SummaryEntry(job_code, job_data))]
                     ELSE acc
         IN SummaryLoop(file, rules, names \ {sheet_name}, next)

\* get_all_jobs_summary
get_all_jobs_summary(file, rules) ==
    LET job_sheets == {n \in DOMAIN file : IsJobSheetName(n)}
        done == SummaryLoop(file, rules, job_sheets,
                            [total_contract_value |-> 0, total_invoiced |-> 0, total_costs |-> 0,
                             total_margin |-> 0, jobs |-> <<>>])
    IN [success |-> TRUE,
        total_jobs |-> Cardinality(job_sheets),
        total_contract_value |-> done.total_contract_value,
        total_invoiced |-> done.total_invoiced,
        total_costs |-> done.total_costs,
        total_margin |-> done.total_margin,
        jobs |-> done.jobs,
        overall_cost_percentage |-> PercentOf(done.total_costs, done.total_contract_value),
        overall_invoiced_percentage |-> PercentOf(done.total_invoiced, done.total_contract_value),
        overall_margin_percentage |-> PercentOf(done.total_margin, done.total_invoiced)]

\* the job sheets a ledger may hold when the summary is asked for
SummarySheetNames == {SheetName("J1"), SheetName("J2"), <<"Job_", "Job_", "J1">>}

SummarySheets ==
    {DefaultStructure,
     [DefaultStructure EXCEPT !["C3"] = Num(100), !["C4"] = Num(50), !["C5"] = Num(75)],
     [DefaultStructure EXCEPT !["C3"] = Num(100), !["C4"] = FormulaCell, !["C5"] = Num(30)],
     PaymentBlock([DefaultStructure EXCEPT !["C3"] = Num(50), !["C4"] = Num(50)], InvoiceJobData("I_ok"))}

SummaryLedgers ==
    UNION {[names \cup {TemplateName} -> SummarySheets] : names \in SUBSET SummarySheetNames}

GetAllJobsSummary ==
    /\ Called([op |-> "get_all_jobs_summary", result |-> get_all_jobs_summary(ledger, update_rules)])
    /\ UNCHANGED <<invoices, pc, storeVars, ledgerVars, probe>>

InitSummary ==
    /\ jobs = InitialJobs
    /\ budgets = {}
    /\ expenses = EmptyBag
    /\ alerts = {}
    /\ invoices = {}
    /\ ledger \in SummaryLedgers
    /\ update_rules \in {EmptyRules, DefaultRules}
    /\ pc = NoProcess
    /\ probe = NoProbe
    /\ lastCall = NoCall

NextSummary == GetAllJobsSummary

SpecSummary == InitSummary /\ [][NextSummary]_vars

SummaryCalled == lastCall.op = "get_all_jobs_summary"

\* the entry the summary must carry for a job sheet: the values extracted from that sheet
OwnEntry(sheet_name) ==
    LET sheet == ledger[sheet_name]
        value(key) == IF key \in DOMAIN update_rules.cell_mappings
                      THEN MappedValue(sheet[update_rules.cell_mappings[key]]) ELSE 0
    IN [contract_value |-> value("total_contract_value"),
        invoiced |-> value("total_invoiced"),
        costs |-> value("total_costs")]

RECURSIVE SumOver(_, _)
SumOver(names, field) ==
    IF names = {} THEN 0
    ELSE LET n == CHOOSE x \in names : TRUE
         IN OwnEntry(n)[field] + SumOver(names \ {n}, field)

\* C11: get_all_jobs_summary returns one entry per job sheet (every sheet whose
\* name starts with 'Job_') with that sheet's own contract value, invoiced and
\* costs; the three totals are the sums over the job sheets; total_jobs is the
\* number of entries; overall_margin_percentage is 0 when total invoiced is 0.
C11_SummaryPerSheet ==
    SummaryCalled =>
        LET r == lastCall.result
            job_sheets == {n \in DOMAIN ledger : IsJobSheetName(n)}
        IN /\ r.success
           /\ r.total_jobs = Len(r.jobs)
           /\ Len(r.jobs) = Cardinality(job_sheets)
           /\ \E f \in [job_sheets -> DOMAIN r.jobs] :
                 /\ \A a, b \in job_sheets : f[a] = f[b] => a = b
                 /\ \A n \in job_sheets :
                       /\ r.jobs[f[n]].contract_value = OwnEntry(n).contract_value
                       /\ r.jobs[f[n]].invoiced = OwnEntry(n).invoiced
                       /\ r.jobs[f[n]].costs = OwnEntry(n).costs
           /\ r.total_contract_value = SumOver(job_sheets, "contract_value")
           /\ r.total_invoiced = SumOver(job_sheets, "invoiced")
           /\ r.total_costs = SumOver(job_sheets, "costs")
           /\ r.total_invoiced = 0 => r.overall_margin_percentage.num = 0

(***************************************************************************)
(* parse_pnl.py: text is a sequence of one-character strings.              *)
(***************************************************************************)
LowerLetters == <<"a","b","c","d","e","f","g","h","i","j","k","l","m","n","o","p","q","r","s","t","u","v","w","x","y","z">>

UpperLetters == <<"A","B","C","D","E","F","G","H","I","J","K","L","M","N","O","P","Q","R","S","T","U","V","W","X","Y","Z">>

IsDigit(c) == c \in {"0", "1", "2", "3", "4", "5", "6", "7", "8", "9"}

IsLetter(c) == \E i \in 1..26 : c = LowerLetters[i] \/ c = UpperLetters[i]

LowerChar(c) ==
    IF \E i \in 1..26 : c = UpperLetters[i]
    THEN LowerLetters[CHOOSE i \in 1..26 : c = UpperLetters[i]] ELSE c

UpperChar(c) ==
    IF \E i \in 1..26 : c = LowerLetters[i]
    THEN UpperLetters[CHOOSE i \in 1..26 : c = LowerLetters[i]] ELSE c

\* str.lower()
Lower(text) == [i \in 1..Len(text) |-> LowerChar(text[i])]

\* str.upper()
Upper(text) == [i \in 1..Len(text) |-> UpperChar(text[i])]

\* str.strip(): leading and trailing blanks removed
Strip(text) ==
    LET solid == {i \in 1..Len(text) : text[i] # " "}
    IN IF solid = {} THEN <<>> ELSE SubSeq(text, Min(solid), Max(solid))

\* any(keyword in description for keyword in keywords)
AnyKeywordIn(keywords, description) == \E keyword \in keywords : KeywordIn(keyword, description)

material_keywords == {<<"m","a","t","e","r","i","a","l">>, <<"c","a","b","l","e">>, <<"p","i","p","e">>, <<"j","o","i","n","t">>, <<"c","o","n","c","r","e","t","e">>, <<"a","g","g","r","e","g","a","t","e">>, <<"s","a","n","d">>, <<"c","e","m","e","n","t">>}

labor_keywords == {<<"w","a","g","e">>, <<"s","a","l","a","r","y">>, <<"l","a","b","o","r">>, <<"l","a","b","o","u","r">>, <<"s","t","a","f","f">>, <<"p","a","y","r","o","l","l">>, <<"o","v","e","r","t","i","m","e">>}

plant_keywords == {<<"p","l","a","n","t">>, <<"m","a","c","h","i","n","e","r","y">>, <<"e","q","u","i","p","m","e","n","t">>, <<"h","i","r","e">>, <<"r","e","n","t","a","l">>, <<"e","x","c","a","v","a","t","o","r">>, <<"t","r","u","c","k">>}

subcontractor_keywords == {<<"s","u","b","c","o","n","t","r","a","c","t","o","r">>, <<"s","u","b","-","c","o","n","t","r","a","c","t","o","r">>, <<"c","o","n","t","r","a","c","t","o","r">>, <<"o","u","t","s","o","u","r","c","e">>}

transport_keywords == {<<"t","r","a","n","s","p","o","r","t">>, <<"d","e","l","i","v","e","r","y">>, <<"f","u","e","l">>, <<"v","e","h","i","c","l","e">>, <<"m","i","l","e","a","g","e">>}

\* ExpenseCategory.<name>: the member when the enumeration has one of that name, AttributeError otherwise
EnumMember(name) ==
    IF name \in ExpenseCategory THEN [raised |-> FALSE, value |-> name]
    ELSE [raised |-> TRUE, value |-> "AttributeError"]

\* categorize_expense
categorize_expense(description) ==
    LET d == Strip(Lower(description))
    IN IF AnyKeywordIn(material_keywords, d) THEN EnumMember("materials")
       ELSE IF AnyKeywordIn(labor_keywords, d) THEN EnumMember("labor")
       ELSE IF AnyKeywordIn(plant_keywords, d) THEN EnumMember("plant_machinery")
       ELSE IF AnyKeywordIn(subcontractor_keywords, d) THEN EnumMember("subcontractors")
       ELSE IF AnyKeywordIn(transport_keywords, d) THEN EnumMember("transport")
       ELSE EnumMember("other")

\* account names of a P&L report
AccountNames ==
    {<<"P","l","a","n","t"," ","H","i","r","e">>,
     <<"S","i","t","e"," ","W","a","g","e","s">>,
     <<"C","a","b","l","e"," ","a","n","d"," ","w","a","g","e","s">>,
     <<"F","u","e","l">>,
     <<"S","u","n","d","r","i","e","s">>,
     <<>>,
     <<"E","q","u","i","p","m","e","n","t"," ","f","o","r"," ","c","o","n","t","r","a","c","t","o","r">>,
     <<"T","o","t","a","l"," ","E","x","p","e","n","s","e","s">>,
     <<"S","u","b","c","o","n","t","r","a","c","t","o","r">>}

(***************************************************************************)
(* parse_pnl.py: job codes from column headers.                            *)
(***************************************************************************)
\* the end of the run of digits that starts at position i
DigitsEnd(text, i) == Max({j \in i..Len(text) : \A k \in i..j : IsDigit(text[k])})

\* re.search(r'JOB\d+', class_name, re.IGNORECASE): the start positions of a match
Pattern1Starts(text) ==
    {i \in 1..Len(text) : /\ i + 3 <= Len(text)
                         /\ Lower(SubSeq(text, i, i + 2)) = <<"j","o","b">>
                         /\ IsDigit(text[i + 3])}

\* -\d{4}-\d+ from position j on
TailAt(text, j) ==
    /\ j + 6 <= Len(text)
    /\ text[j] = "-"
    /\ \A k \in 1..4 : IsDigit(text[j + k])
    /\ text[j + 5] = "-"
    /\ IsDigit(text[j + 6])

\* re.search(r'SGN-\d{4}-\d+', class_name, re.IGNORECASE)
Pattern2Starts(text) ==
    {i \in 1..Len(text) : /\ i + 2 <= Len(text)
                         /\ Lower(SubSeq(text, i, i + 2)) = <<"s","g","n">>
                         /\ TailAt(text, i + 3)}

\* re.search(r'[A-Z]{2,}-\d{4}-\d+', class_name, re.IGNORECASE): <<start, position of the hyphen>>
Pattern3Starts(text) ==
    {<<i, j>> \in (1..Len(text)) \X (1..Len(text)) :
        /\ j >= i + 2
        /\ \A k \in i..(j - 1) : IsLetter(text[k])
        /\ TailAt(text, j)}

NoJobCode == <<>>

\* extract_job_code_from_class: the job code, NoJobCode for None
extract_job_code_from_class(raw) ==
    IF raw = <<>> \/ raw = <<"N","o","t"," ","S","p","e","c","i","f","i","e","d">> THEN NoJobCode
    ELSE LET class_name == Strip(raw)
         IN IF Pattern1Starts(class_name) # {}
            THEN LET i == Min(Pattern1Starts(class_name))
                 IN Upper(SubSeq(class_name, i, DigitsEnd(class_name, i + 3)))
            ELSE IF Pattern2Starts(class_name) # {}
            THEN LET i == Min(Pattern2Starts(class_name))
                 IN Upper(SubSeq(class_name, i, DigitsEnd(class_name, i + 9)))
            ELSE IF Pattern3Starts(class_name) # {}
            THEN LET i == Min({m[1] : m \in Pattern3Starts(class_name)})
                     j == CHOOSE j \in 1..Len(class_name) : <<i, j>> \in Pattern3Starts(class_name)
                 IN Upper(SubSeq(class_name, i, DigitsEnd(class_name, j + 6)))
            ELSE Upper(class_name)

(***************************************************************************)
(* The P&L reports (data frames after dropna and fillna(0)) read by        *)
(* process_pnl_data: the column headers and, per row, one cell per column. *)
(***************************************************************************)
ReportNames == {"R1", "R2", "R3", "R4", "R5"}

ReportData(name) ==
    CASE name = "R1" ->
            [columns |-> <<<<"A","c","c","o","u","n","t">>, <<"J","O","B","1"," ","-"," ","R","o","a","d">>, <<"j","o","b","1"," ","e","x","t","r","a","s">>, <<"T","o","t","a","l">>>>,
             rows |-> <<<<Str(<<"P","l","a","n","t"," ","H","i","r","e">>), Num(100), Num(-40), Num(60)>>,
                       <<Str(<<"S","i","t","e"," ","W","a","g","e","s">>), Num(50), Num(0), Num(50)>>,
                       <<Str(<<"T","o","t","a","l"," ","E","x","p","e","n","s","e","s">>), Num(150), Num(-40), Num(110)>>>>]
      [] name = "R2" ->
            [columns |-> <<<<"A","c","c","o","u","n","t">>, <<"J","O","B","9">>, <<"N","o","t"," ","S","p","e","c","i","f","i","e","d">>>>,
             rows |-> <<<<Str(<<"P","l","a","n","t"," ","H","i","r","e">>), Num(30), Num(5)>>,
                       <<Str(<<"E","q","u","i","p","m","e","n","t"," ","f","o","r"," ","c","o","n","t","r","a","c","t","o","r">>), Num(20), Num(0)>>>>]
      [] name = "R3" ->
            [columns |-> <<<<"A","c","c","o","u","n","t">>, <<"S","G","N","-","2","0","2","4","-","0","0","1"," ","M","a","i","n">>, <<"J","O","B","1">>>>,
             rows |-> <<<<Str(<<"F","u","e","l">>), Num(10), Num(0)>>,
                       <<Str(<<"P","l","a","n","t"," ","H","i","r","e">>), Str(<<"n","/","a">>), Num(70)>>,
                       <<Num(0), Num(5), Num(5)>>,
                       <<Str(<<"E","q","u","i","p","m","e","n","t"," ","f","o","r"," ","c","o","n","t","r","a","c","t","o","r">>), Num(20), Num(30)>>>>]
      [] name = "R4" ->
            [columns |-> <<<<"J","O","B","1">>>>,
             rows |-> <<<<Num(100)>>>>]
      [] name = "R5" ->
            [columns |-> <<<<"A","c","c","o","u","n","t">>, <<"J","O","B","2">>>>,
             rows |-> <<<<Str(<<"P","l","a","n","t"," ","H","i","r","e">>), Num(25)>>,
                       <<Str(<<"C","a","b","l","e"," ","a","n","d"," ","w","a","g","e","s">>), Num(10)>>,
                       <<Str(<<"S","u","n","d","r","i","e","s">>), Num(1)>>>>]

(***************************************************************************)
(* parse_pnl.py: the normalization pass.                                   *)
(***************************************************************************)
AccountHeader == <<"A","c","c","o","u","n","t">>

TotalHeader == <<"T","o","t","a","l">>

\* the (column, job code) pairs of process_pnl_data, in column order, from column c on
RECURSIVE JobColumns(_, _)
JobColumns(columns, c) ==
    IF c > Len(columns) THEN <<>>
    ELSE LET name == Strip(columns[c])
             job_code == extract_job_code_from_class(columns[c])
         IN IF name # <<>> /\ name # AccountHeader /\ name # TotalHeader /\ job_code # NoJobCode
            THEN <<[col |-> c, job_code |-> job_code]>> \o JobColumns(columns, c + 1)
            ELSE JobColumns(columns, c + 1)

\* row.get('Account', ''): the cell under the header 'Account', an empty text without such a column
AccountCell(columns, row) ==
    IF \E c \in DOMAIN columns : columns[c] = AccountHeader
    THEN row[CHOOSE c \in DOMAIN columns : columns[c] = AccountHeader]
    ELSE Str(<<>>)

\* str(account_name).strip()
AccountText(cell) == IF cell.t = "str" THEN Strip(cell.s) ELSE Digits(cell.n)

SkipWords == {<<"t","o","t","a","l">>, <<"i","n","c","o","m","e">>, <<"r","e","v","e","n","u","e">>,
              <<"g","r","o","s","s"," ","p","r","o","f","i","t">>}

\* the fields process_pnl_data passes to JobCreate, and the fields JobBase declares without a default
JobCreateGiven == {"job_code", "job_name", "client", "status", "contract_value", "progress_percentage"}

JobBaseRequired ==
    {"job_code", "job_name", "client", "contract_value", "amended_value", "estimated_final_cost", "status"}

\* self.job_mappings.get(job_code): the id, 0 for None
MappingGet(job_mappings, job_code) ==
    IF job_code \in DOMAIN job_mappings THEN job_mappings[job_code] ELSE 0

\* a resolver that creates a job on every call and keeps no cache entry
create_job_if_not_exists_Uncached(store, job_mappings, job_code) ==
    [job_id |-> NextId(store),
     store |-> store \cup {[id |-> NextId(store), job_code |-> job_code]},
     job_mappings |-> job_mappings]

\* create_job_if_not_exists: the validation of JobCreate, then crud.create_job under the unique
\* job_code constraint, then the cache entry; job_id 0 stands for None
create_job_if_not_exists(store, job_mappings, job_code) ==
    IF ~(JobBaseRequired \subseteq JobCreateGiven) \/ (\E j \in store : j.job_code = job_code)
    THEN [job_id |-> 0, store |-> store, job_mappings |-> job_mappings]
    ELSE LET id == NextId(store)
         IN [job_id |-> id,
             store |-> store \cup {[id |-> id, job_code |-> job_code]},
             job_mappings |-> (job_code :> id) @@ job_mappings]

\* the body of "for col_name, job_code in job_columns" for one cell; attempts lists the job codes
\* create_job_if_not_exists was called with, and an item's job_code names the column it came from
PnlCell(acc, description, cell, job_code) ==
    IF cell.t = "none" \/ (cell.t = "num" /\ cell.n = 0) THEN acc
    ELSE IF cell.t = "str" THEN [acc EXCEPT !.skipped_count = @ + 1]
    ELSE LET amount == IF cell.n < 0 THEN -cell.n ELSE cell.n
             cached == MappingGet(acc.job_mappings, job_code)
             created == create_job_if_not_exists(acc.store, acc.job_mappings, job_code)
             job_id == IF cached # 0 THEN cached ELSE created.job_id
             acc1 == IF cached # 0 THEN acc
                     ELSE [acc EXCEPT !.store = created.store,
                                      !.job_mappings = created.job_mappings,
                                      !.attempts = Append(@, job_code)]
             category == categorize_expense(description)
         IN IF job_id = 0 THEN acc1
            ELSE IF category.raised THEN [acc1 EXCEPT !.skipped_count = @ + 1]
            ELSE [acc1 EXCEPT !.processed_count = @ + 1,
                              !.processed_expenses =
                                  Append(@, [job_id |-> job_id, category |-> category.value,
                                             description |-> description, amount |-> amount,
                                             job_code |-> job_code])]

RECURSIVE PnlCells(_, _, _, _, _)
PnlCells(acc, description, row, job_columns, k) ==
    IF k > Len(job_columns) THEN acc
    ELSE PnlCells(PnlCell(acc, description, row[job_columns[k].col], job_columns[k].job_code),
                  description, row, job_columns, k + 1)

\* not account_name: an empty text or the 0 that fillna put in an empty cell
AccountMissing(cell) == cell.t = "none" \/ (cell.t = "num" /\ cell.n = 0) \/ (cell.t = "str" /\ cell.s = <<>>)

\* a header, income or total row
IsSummaryRow(description) == AnyKeywordIn(SkipWords, Lower(description))

\* the loop "for index, row in df.iterrows()", from row r on
RECURSIVE PnlRows(_, _, _, _)
PnlRows(acc, report, job_columns, r) ==
    IF r > Len(report.rows) THEN acc
    ELSE LET row == report.rows[r]
             account == AccountCell(report.columns, row)
         IN IF AccountMissing(account) \/ IsSummaryRow(AccountText(account))
            THEN PnlRows(acc, report, job_columns, r + 1)
            ELSE PnlRows(PnlCells(acc, AccountText(account), row, job_columns, 1),
                         report, job_columns, r + 1)

\* process_pnl_data on a parser with the given job_mappings and no processed expenses
process_pnl_data(store, job_mappings, report) ==
    LET done == PnlRows([processed_count |-> 0, skipped_count |-> 0, processed_expenses |-> <<>>,
                         job_mappings |-> job_mappings, store |-> store, attempts |-> <<>>],
                        report, JobColumns(report.columns, 1), 1)
    IN [store |-> done.store,
        job_mappings |-> done.job_mappings,
        processed_expenses |-> done.processed_expenses,
        attempts |-> done.attempts,
        result |-> [processed_count |-> done.processed_count,
                    skipped_count |-> done.skipped_count,
                    total_expenses |-> Len(done.processed_expenses)]]

\* load_job_mappings: job_code -> id for every job of the store
load_job_mappings(store) ==
    [code \in {j.job_code : j \in store} |-> (CHOOSE j \in store : j.job_code = code).id]

(***************************************************************************)
(* The normalizer as a state machine: a store of jobs, and calls of the    *)
(* classifier and of the normalization pass on a new parser.               *)
(***************************************************************************)
PnlStoreJobs == {[id |-> 1, job_code |-> <<"J","O","B","1">>], [id |-> 2, job_code |-> <<"J","O","B","2">>],
                 [id |-> 3, job_code |-> <<"S","G","N","-","2","0","2","4","-","0","0","1">>]}

CategorizeExpense(description) ==
    /\ Called([op |-> "categorize_expense", description |-> description,
               result |-> categorize_expense(description)])
    /\ UNCHANGED <<invoices, pc, jobs, budgets, expenses, alerts, ledger, update_rules, probe>>

\* PnLParser(db), load_job_mappings() when loaded, then process_pnl_data(df)
ProcessPnlData(report, loaded) ==
    LET before == IF loaded THEN load_job_mappings(jobs) ELSE <<>>
        pass == process_pnl_data(jobs, before, ReportData(report))
    IN /\ jobs' = pass.store
       /\ Called([op |-> "process_pnl_data", report |-> report, store |-> jobs,
                  mappings_before |-> before, job_mappings |-> pass.job_mappings,
                  processed_expenses |-> pass.processed_expenses,
                  attempts |-> pass.attempts, result |-> pass.result])
       /\ UNCHANGED <<invoices, pc, budgets, expenses, alerts, ledger, update_rules, probe>>

InitPnl ==
    /\ jobs \in SUBSET PnlStoreJobs
    /\ budgets = {}
    /\ expenses = EmptyBag
    /\ alerts = {}
    /\ invoices = {}
    /\ ledger = NoLedger
    /\ update_rules = NoRules
    /\ pc = NoProcess
    /\ probe = NoProbe
    /\ lastCall = NoCall

NextPnl ==
    \/ \E description \in AccountNames : CategorizeExpense(description)
    \/ \E report \in ReportNames, loaded \in BOOLEAN : ProcessPnlData(report, loaded)

SpecPnl == InitPnl /\ [][NextPnl]_vars

(***************************************************************************)
(* Claims about the classifier.                                            *)
(***************************************************************************)
CategorizeCalled == lastCall.op = "categorize_expense"

HasKeyword(keywords, description) == AnyKeywordIn(keywords, Strip(Lower(description)))

\* C12: categorize_expense returns the first category, in the order materials,
\* labour, plant/machinery, subcontractor, transport, that has a keyword in the
\* lower-cased, trimmed description: a description with a labour keyword and no
\* material keyword classifies as labour, one with a material keyword as
\* material, one with a plant keyword and neither of those as plant_machinery.
C12_FirstMatchWins ==
    CategorizeCalled =>
        LET d == lastCall.description
            r == lastCall.result
        IN /\ HasKeyword(material_keywords, d) => ~r.raised /\ r.value = "material"
           /\ ~HasKeyword(material_keywords, d) /\ HasKeyword(labor_keywords, d)
                  => ~r.raised /\ r.value = "labour"
           /\ /\ ~HasKeyword(material_keywords, d)
              /\ ~HasKeyword(labor_keywords, d)
              /\ HasKeyword(plant_keywords, d)
                  => ~r.raised /\ r.value = "plant_machinery"

\* C13: for every description, the empty one and the ones that match only a
\* transport keyword or no keyword included, the classifier returns a member of
\* {material, labour, plant_machinery, overheads, subcontractor}, and every line
\* item of a normalization pass carries such a category.
C13_ClosedTaxonomy ==
    /\ CategorizeCalled => ~lastCall.result.raised /\ lastCall.result.value \in ExpenseCategory
    /\ lastCall.op = "process_pnl_data" =>
           \A i \in DOMAIN lastCall.processed_expenses :
               lastCall.processed_expenses[i].category \in ExpenseCategory

(***************************************************************************)
(* Claims about the normalization pass.                                    *)
(***************************************************************************)
PassCalled == lastCall.op = "process_pnl_data"

\* the (row, job column) pairs of a report whose account name is non-empty and
\* has no summary marker and whose cell holds something other than zero
NonzeroCells(report) ==
    LET job_columns == JobColumns(report.columns, 1)
    IN {rc \in (DOMAIN report.rows) \X (DOMAIN job_columns) :
           LET row == report.rows[rc[1]]
               account == AccountCell(report.columns, row)
               cell == row[job_columns[rc[2]].col]
           IN /\ ~AccountMissing(account)
              /\ ~IsSummaryRow(AccountText(account))
              /\ cell.t # "none"
              /\ ~(cell.t = "num" /\ cell.n = 0)}

CellJobCode(report, rc) == JobColumns(report.columns, 1)[rc[2]].job_code

CellValue(report, rc) == report.rows[rc[1]][JobColumns(report.columns, 1)[rc[2]].col]

CellAccount(report, rc) == AccountText(AccountCell(report.columns, report.rows[rc[1]]))

AbsValue(n) == IF n < 0 THEN -n ELSE n

\* the nonzero numeric cells whose job code is known to the parser at the end of the pass
ResolvedCells(report, job_mappings) ==
    {rc \in NonzeroCells(report) : /\ CellValue(report, rc).t = "num"
                                   /\ CellJobCode(report, rc) \in DOMAIN job_mappings}

\* C14: process_pnl_data emits exactly one line item for each (account row, job
\* column) cell with a non-empty, non-summary account name, a column that yields
\* a job code, a nonzero value and a job that resolves, and none for any other
\* cell; each amount is the absolute value of the cell and so strictly positive.
C14_OneItemPerEligibleCell ==
    PassCalled =>
        LET report == ReportData(lastCall.report)
            items == lastCall.processed_expenses
            cells == ResolvedCells(report, lastCall.job_mappings)
            ItemOf(rc) == [description |-> CellAccount(report, rc),
                           job_code |-> CellJobCode(report, rc),
                           amount |-> AbsValue(CellValue(report, rc).n)]
            Key(item) == [description |-> item.description, job_code |-> item.job_code,
                          amount |-> item.amount]
        IN /\ Len(items) = Cardinality(cells)
           /\ \A rc \in cells :
                  Cardinality({i \in DOMAIN items : Key(items[i]) = ItemOf(rc)})
                      = Cardinality({other \in cells : ItemOf(other) = ItemOf(rc)})
           /\ \A i \in DOMAIN items : items[i].amount > 0

\* C19: every eligible cell (nonzero value, non-summary account row, job column)
\* is either emitted and counted in processed_count or counted in skipped_count:
\* processed_count + skipped_count is the number of eligible cells, and a cell
\* whose job can be neither resolved nor created is counted as skipped.
C19_EveryCellCounted ==
    PassCalled =>
        LET report == ReportData(lastCall.report)
        IN /\ lastCall.result.processed_count = Len(lastCall.processed_expenses)
           /\ lastCall.result.processed_count + lastCall.result.skipped_count
                  = Cardinality(NonzeroCells(report))

CreateBudgetRequest(job_id, category, amount) ==
    LET response == create_budget(budgets, job_id, category, amount)
    IN /\ response.status = 200 => Cardinality(budgets) < MaxBudgets
       /\ budgets' = response.budgets
       /\ Called([op |-> "create_budget", job_id |-> job_id, category |-> category,
                  amount |-> amount, status |-> response.status])
       /\ UNCHANGED <<invoices, pc, jobs, expenses, alerts, ledgerVars, probe>>

NextBudget ==
    \E target \in BudgetTargets, amount \in BudgetAmounts :
        CreateBudgetRequest(target[1], target[2], amount)

SpecBudget == Init /\ [][NextBudget]_vars

SameTarget(a, b) == a.job_id = b.job_id /\ a.category = b.category

\* C17: under requests executed one at a time there is at most one budget row
\* per (job, category); a create_budget request for a (job, category) that has
\* a budget, or for a job id that does not exist, is rejected (400, 404) and
\* leaves the budget rows as they were; any other request adds its row.
C17_OneBudgetPerCategory ==
    [][LET request == lastCall'
           duplicate == \E e \in budgets : SameTarget(e, request)
           unknown == \A j \in jobs : j.id # request.job_id
       IN /\ \A a, b \in budgets' : SameTarget(a, b) => a = b
          /\ IF duplicate \/ unknown
             THEN request.status \in {400, 404} /\ budgets' = budgets
             ELSE /\ request.status = 200
                  /\ \E b \in budgets' \ budgets :
                         /\ SameTarget(b, request)
                         /\ b.budgeted_amount = request.amount
                         /\ budgets' = budgets \cup {b}]_vars

\* a request for a category that already has a budget was rejected
C17_Witness ==
    /\ lastCall.op = "create_budget"
    /\ lastCall.status = 400
    /\ \E e \in budgets : SameTarget(e, lastCall)

(***************************************************************************)
(* parse_invoice.py: the invoice parser.  A data frame is a sequence of    *)
(* column headers and a sequence of rows, one cell per column.             *)
(***************************************************************************)
required_columns == <<<<"T","y","p","e">>, <<"D","a","t","e">>, <<"N","u","m">>, <<"N","a","m","e">>, <<"C","l","a","s","s">>, <<"A","m","o","u","n","t">>, <<"B","a","l","a","n","c","e">>>>

PaidColumn == <<"A","/","R"," ","P","a","i","d">>

UNASSIGNED == <<"U","N","A","S","S","I","G","N","E","D">>

UNKNOWN == <<"U","N","K","N","O","W","N">>

HasColumn(df, name) == \E c \in DOMAIN df.columns : df.columns[c] = name

\* row.get(name, default)
RowGet(df, row, name, default) ==
    IF HasColumn(df, name) THEN row[CHOOSE c \in DOMAIN df.columns : df.columns[c] = name]
    ELSE default

\* dropna(how='all') keeps a row with a value in some cell
HasValue(row) == \E c \in DOMAIN row : row[c].t # "none"

\* astype(str) of a cell
CellText(cell) ==
    IF cell.t = "str" THEN cell.s
    ELSE IF cell.t = "num" /\ cell.n >= 0 THEN Digits(cell.n)
    ELSE IF cell.t = "num" THEN <<"-">> \o Digits(-cell.n)
    ELSE <<"n","a","n">>

\* a job code that keeps the text of the Class cell as it is
NormalizeClass_AsIs(cell) == IF cell.t = "none" THEN UNASSIGNED ELSE CellText(cell)

\* fillna 'UNASSIGNED', then astype(str).str.strip().str.upper()
NormalizeClass(cell) == Upper(Strip(IF cell.t = "none" THEN UNASSIGNED ELSE CellText(cell)))

\* the cleaning of one cell of the named column: to_datetime and to_numeric with
\* errors='coerce' (the text cells of the inputs are no numbers and no dates), then
\* fillna, then the Class clean-up
CleanCell(name, cell) ==
    IF name \in {<<"A","m","o","u","n","t">>, <<"B","a","l","a","n","c","e">>, PaidColumn}
    THEN IF cell.t = "num" THEN cell ELSE Num(0)
    ELSE IF name = <<"C","l","a","s","s">> THEN Str(NormalizeClass(cell))
    ELSE IF name = <<"N","a","m","e">> THEN IF cell.t = "none" THEN Str(UNKNOWN) ELSE cell
    ELSE IF name \in {<<"D","a","t","e">>, <<"D","u","e"," ","D","a","t","e">>} THEN IF cell.t = "num" THEN cell ELSE None
    ELSE cell

_clean_dataframe(df) ==
    LET columns == [c \in DOMAIN df.columns |-> Strip(df.columns[c])]
        kept == SelectSeq(df.rows, HasValue)
    IN [columns |-> columns,
        rows |-> [r \in DOMAIN kept |-> [c \in DOMAIN columns |-> CleanCell(columns[c], kept[r][c])]]]

RECURSIVE SumColumn(_, _, _)
SumColumn(df, rows, name) ==
    IF rows = <<>> THEN 0
    ELSE RowGet(df, Head(rows), name, Num(0)).n + SumColumn(df, Tail(rows), name)

\* the dictionary built for one row of a job's group; without a 'Due Date' column
\* due_date is None and aging_days 0
invoice_info(df, row) ==
    [invoice_number |-> CellText(RowGet(df, row, <<"N","u","m">>, Str(<<>>))),
     date |-> RowGet(df, row, <<"D","a","t","e">>, None),
     client_name |-> CellText(RowGet(df, row, <<"N","a","m","e">>, Str(<<>>))),
     amount |-> RowGet(df, row, <<"A","m","o","u","n","t">>, Num(0)).n,
     balance |-> RowGet(df, row, <<"B","a","l","a","n","c","e">>, Num(0)).n,
     paid_amount |-> RowGet(df, row, PaidColumn, Num(0)).n,
     status |-> IF RowGet(df, row, <<"B","a","l","a","n","c","e">>, Num(0)).n <= 0 THEN "PAID" ELSE "UNPAID",
     due_date |-> None,
     aging_days |-> 0]

\* the entry of invoice_data for one job code
JobInvoiceData(df, job_code) ==
    LET InGroup(row) == RowGet(df, row, <<"C","l","a","s","s">>, None).s = job_code
        job_df == SelectSeq(df.rows, InGroup)
        Paid(row) == RowGet(df, row, <<"B","a","l","a","n","c","e">>, Num(0)).n <= 0
        Unpaid(row) == RowGet(df, row, <<"B","a","l","a","n","c","e">>, Num(0)).n > 0
        total_invoiced == SumColumn(df, job_df, <<"A","m","o","u","n","t">>)
        total_paid == IF HasColumn(df, PaidColumn) THEN SumColumn(df, job_df, PaidColumn) ELSE 0
    IN [job_code |-> job_code,
        total_invoiced |-> total_invoiced,
        total_paid |-> total_paid,
        outstanding_balance |-> SumColumn(df, job_df, <<"B","a","l","a","n","c","e">>),
        paid_invoices_count |-> Len(SelectSeq(job_df, Paid)),
        unpaid_invoices_count |-> Len(SelectSeq(job_df, Unpaid)),
        invoices |-> [i \in DOMAIN job_df |-> invoice_info(df, job_df[i])],
        payment_rate |-> PercentOf(total_paid, total_invoiced)]

\* _process_invoice_data: groupby('Class') raises KeyError without the column; the body of
\* the loop, run for every group but UNASSIGNED, raises KeyError without 'Amount' or 'Balance'
_process_invoice_data(df) ==
    IF ~HasColumn(df, <<"C","l","a","s","s">>) THEN [raised |-> TRUE, error |-> "KeyError: Class", data |-> <<>>]
    ELSE LET groups == {RowGet(df, df.rows[r], <<"C","l","a","s","s">>, None).s : r \in DOMAIN df.rows} \ {UNASSIGNED}
         IN IF groups # {} /\ ~HasColumn(df, <<"A","m","o","u","n","t">>)
            THEN [raised |-> TRUE, error |-> "KeyError: Amount", data |-> <<>>]
            ELSE IF groups # {} /\ ~HasColumn(df, <<"B","a","l","a","n","c","e">>)
            THEN [raised |-> TRUE, error |-> "KeyError: Balance", data |-> <<>>]
            ELSE [raised |-> FALSE, error |-> "",
                  data |-> [job_code \in groups |-> JobInvoiceData(df, job_code)]]

RECURSIVE SumOfJobs(_, _, _)
SumOfJobs(invoice_data, codes, field) ==
    IF codes = {} THEN 0
    ELSE LET code == CHOOSE c \in codes : TRUE
         IN invoice_data[code][field] + SumOfJobs(invoice_data, codes \ {code}, field)

\* payment_rate < 50
LowPaymentRate(rate) == rate.num < 50 * rate.den

OutstandingThreshold == 10000

\* _generate_alerts: the (type, job_code) pairs; no invoice of the inputs is overdue
_generate_alerts(invoice_data) ==
    {[type |-> "LOW_PAYMENT_RATE", job_code |-> code] :
        code \in {c \in DOMAIN invoice_data : LowPaymentRate(invoice_data[c].payment_rate)}}
    \cup {[type |-> "HIGH_OUTSTANDING_BALANCE", job_code |-> code] :
        code \in {c \in DOMAIN invoice_data : invoice_data[c].outstanding_balance > OutstandingThreshold}}

\* _generate_summary; job_performance is given without its order (at most two jobs, so the
\* cut to ten entries keeps all)
_generate_summary(invoice_data) ==
    LET codes == DOMAIN invoice_data
        total_invoiced == SumOfJobs(invoice_data, codes, "total_invoiced")
        total_paid == SumOfJobs(invoice_data, codes, "total_paid")
    IN [total_invoiced |-> total_invoiced,
        total_paid |-> total_paid,
        total_outstanding |-> SumOfJobs(invoice_data, codes, "outstanding_balance"),
        overall_payment_rate |-> PercentOf(total_paid, total_invoiced),
        paid_invoices_count |-> SumOfJobs(invoice_data, codes, "paid_invoices_count"),
        unpaid_invoices_count |-> SumOfJobs(invoice_data, codes, "unpaid_invoices_count"),
        total_jobs |-> Cardinality(codes),
        job_performance |->
            {[job_code |-> c,
              total_invoiced |-> invoice_data[c].total_invoiced,
              payment_rate |-> invoice_data[c].payment_rate,
              outstanding_balance |-> invoice_data[c].outstanding_balance,
              status |-> IF invoice_data[c].payment_rate.num > 80 * invoice_data[c].payment_rate.den
                         THEN "HEALTHY" ELSE "ATTENTION_NEEDED"] : c \in codes},
        alerts |-> _generate_alerts(invoice_data)]

NoData == <<>>

\* parse_invoice_file on the data frame read from the file
parse_invoice_file(file) ==
    LET processed == _process_invoice_data(_clean_dataframe(file))
    IN IF processed.raised
       THEN [success |-> FALSE, error |-> processed.error, data |-> NoData, summary |-> NoData]
       ELSE [success |-> TRUE, error |-> "", data |-> processed.data,
             summary |-> _generate_summary(processed.data)]

(***************************************************************************)
(* The invoice parser as a state machine: parse_invoice_file called on an  *)
(* invoice report with or without each column.                             *)
(***************************************************************************)
MaxInvoiceRows == 3

AllInvoiceColumns == required_columns \o <<PaidColumn>>

\* the rows of an invoice report, one cell per column of AllInvoiceColumns
InvoiceRowPool ==
    {<<Str(<<"I","n","v","o","i","c","e">>), Num(1), Num(101), Str(<<"A","c","m","e">>), Str(<<"j","o","b","1"," ">>), Num(100), Num(0), Num(100)>>,
     <<Str(<<"I","n","v","o","i","c","e">>), Num(2), Num(102), None, Str(<<"J","O","B","1">>), Num(50), Num(20), Num(30)>>,
     <<Str(<<"I","n","v","o","i","c","e">>), Num(3), Num(103), Str(<<"A","c","m","e">>), None, Num(10), Num(10), Num(0)>>,
     <<Str(<<"I","n","v","o","i","c","e">>), Str(<<"n","/","a">>), Num(104), Str(<<"B","o","l","t">>), Str(<<"U","n","a","s","s","i","g","n","e","d">>), Num(5), Num(-5), None>>,
     <<Str(<<"I","n","v","o","i","c","e">>), Num(5), None, Str(<<"B","o","l","t">>), Str(<<"J","O","B","2">>), None, Str(<<"n","/","a">>), Num(0)>>,
     <<None, None, None, None, None, None, None, None>>}

\* the column layouts: all columns, all but one required column, each with and without
\* 'A/R Paid', and one with blanks around two headers; a layout lists positions of
\* AllInvoiceColumns
Without(skipped) == SelectSeq(<<1, 2, 3, 4, 5, 6, 7, 8>>, LAMBDA c : c \notin skipped)

InvoiceLayouts ==
    {Without(skipped) : skipped \in {{}, {8}} \cup {{c} : c \in 1..7} \cup {{c, 8} : c \in 1..7}}

PaddedHeader(c) ==
    IF c \in {5, 7} THEN <<" ">> \o AllInvoiceColumns[c] \o <<" ">> ELSE AllInvoiceColumns[c]

InvoiceFile(layout, rows, padded) ==
    [columns |-> [i \in DOMAIN layout |->
                     IF padded THEN PaddedHeader(layout[i]) ELSE AllInvoiceColumns[layout[i]]],
     rows |-> [r \in DOMAIN rows |-> [i \in DOMAIN layout |-> rows[r][layout[i]]]]]

InvoiceRowLists == UNION {[1..n -> InvoiceRowPool] : n \in 0..MaxInvoiceRows}

InvoiceFiles ==
    {InvoiceFile(layout, rows, padded) :
        layout \in InvoiceLayouts, rows \in InvoiceRowLists, padded \in BOOLEAN}

\* parse_invoice_file on the report held in probe
ParseInvoiceFile ==
    /\ Called([op |-> "parse_invoice_file", result |-> parse_invoice_file(probe)])
    /\ UNCHANGED <<invoices, pc, jobs, budgets, expenses, alerts, ledger, update_rules, probe>>

InitInvoice ==
    /\ jobs = InitialJobs
    /\ budgets = {}
    /\ expenses = EmptyBag
    /\ alerts = {}
    /\ invoices = {}
    /\ ledger = NoLedger
    /\ update_rules = NoRules
    /\ pc = NoProcess
    /\ probe \in InvoiceFiles
    /\ lastCall = NoCall

NextInvoice == ParseInvoiceFile

SpecInvoice == InitInvoice /\ [][NextInvoice]_vars

(***************************************************************************)
(* Claims about the invoice parser.                                        *)
(***************************************************************************)
InvoiceCalled == lastCall.op = "parse_invoice_file"

\* the report as read, with its headers trimmed
ReportRead == [columns |-> [c \in DOMAIN probe.columns |-> Strip(probe.columns[c])],
               rows |-> probe.rows]

MissingRequired == {i \in DOMAIN required_columns : ~HasColumn(ReportRead, required_columns[i])}

\* C15: when one of the required columns Type, Date, Num, Name, Class, Amount,
\* Balance is absent from the report, parse_invoice_file returns success false
\* and empty data, never success true.
C15_MissingColumnFails ==
    InvoiceCalled /\ MissingRequired # {} =>
        ~lastCall.result.success /\ lastCall.result.data = NoData

\* the trimmed, upper-cased Class of a row of the report, UNASSIGNED when missing
ClassKey(row) ==
    LET cell == RowGet(ReportRead, row, <<"C","l","a","s","s">>, None)
    IN IF cell.t = "none" THEN UNASSIGNED ELSE Upper(Strip(CellText(cell)))

RowsOfKey(key) == LET HasKey(row) == ClassKey(row) = key IN SelectSeq(probe.rows, HasKey)

\* C16: every row of the report is listed in exactly one job group, the one
\* keyed by its trimmed upper-cased Class, with status PAID iff its balance is
\* <= 0 and UNPAID otherwise; rows whose class is UNASSIGNED or missing are in
\* no group; in every group paid_invoices_count + unpaid_invoices_count is the
\* number of invoices listed.
C16_OneGroupPerRow ==
    InvoiceCalled /\ lastCall.result.success =>
        LET data == lastCall.result.data
        IN /\ DOMAIN data = {ClassKey(probe.rows[r]) : r \in DOMAIN probe.rows} \ {UNASSIGNED}
           /\ \A key \in DOMAIN data :
                  LET rows == RowsOfKey(key)
                      listed == data[key].invoices
                  IN /\ Len(listed) = Len(rows)
                     /\ \A i \in DOMAIN listed :
                            LET balance == RowGet(ReportRead, rows[i], <<"B","a","l","a","n","c","e">>, None)
                            IN /\ listed[i].invoice_number
                                      = CellText(RowGet(ReportRead, rows[i], <<"N","u","m">>, Str(<<>>)))
                               /\ balance.t = "num" => listed[i].balance = balance.n
                               /\ listed[i].status = "PAID" <=> listed[i].balance <= 0
                               /\ listed[i].status \in {"PAID", "UNPAID"}
                     /\ data[key].paid_invoices_count + data[key].unpaid_invoices_count
                            = Len(listed)

\* a report parsed into a group that lists a paid and an unpaid invoice whose
\* Class cells are spelled differently, next to a row without a class
C16_Witness ==
    /\ InvoiceCalled
    /\ lastCall.result.success
    /\ \E key \in DOMAIN lastCall.result.data :
           /\ \E i, j \in DOMAIN lastCall.result.data[key].invoices :
                  /\ lastCall.result.data[key].invoices[i].status = "PAID"
                  /\ lastCall.result.data[key].invoices[j].status = "UNPAID"
           /\ \E a, b \in DOMAIN probe.rows :
                  /\ ClassKey(probe.rows[a]) = key
                  /\ ClassKey(probe.rows[b]) = key
                  /\ RowGet(ReportRead, probe.rows[a], <<"C","l","a","s","s">>, None)
                         # RowGet(ReportRead, probe.rows[b], <<"C","l","a","s","s">>, None)
    /\ \E r \in DOMAIN probe.rows : HasValue(probe.rows[r]) /\ ClassKey(probe.rows[r]) = UNASSIGNED

(***************************************************************************)
(* update_cvr.py: process_all_jobs_cvr.  The file system is a record of    *)
(* two directories, each a function from file names to the rows of the     *)
(* active sheet; a row is a sequence of cells.  Its field newest records   *)
(* the name of the template file that was written last.                    *)
(***************************************************************************)
MaxStamp == 2

CvrHeaders == <<"Job Code", "Cost to Date", "Invoiced", "Est. Final Cost", "Amended Value", "Margin">>

\* the characters of file names in the order of their code points
NameAlphabet == <<".", "0", "1", "2", "3", "4", "5", "6", "7", "8", "9", "_">> \o LowerLetters

CharRank(c) == CHOOSE i \in DOMAIN NameAlphabet : NameAlphabet[i] = c

\* a < b for two file names, as sorted() compares strings
RECURSIVE LexLess(_, _)
LexLess(a, b) ==
    IF a = <<>> THEN b # <<>>
    ELSE IF b = <<>> THEN FALSE
    ELSE IF a[1] = b[1] THEN LexLess(Tail(a), Tail(b))
    ELSE CharRank(a[1]) < CharRank(b[1])

\* sorted(files)[-1]
LastByName(names) == CHOOSE n \in names : \A m \in names \ {n} : LexLess(m, n)

\* sorted(files)[0]
FirstByName(names) == CHOOSE n \in names : \A m \in names \ {n} : LexLess(n, m)

\* strftime('%Y%m%d_%H%M%S') of the clock second now: digits of fixed width
Stamp(now) == IF now < 10 THEN <<"0">> \o Digits(now) ELSE Digits(now)

\* f"cvr_processed_{utcnow:%Y%m%d_%H%M%S}.xlsx" for the clock second now
ProcessedName(now) == <<"c","v","r","_","p","r","o","c","e","s","s","e","d","_">> \o Stamp(now) \o <<".","x","l","s","x">>

\* f"cvr_master_{now:%Y%m%d_%H%M%S}.xlsx" of upload_cvr_template
UploadName(now) == <<"c","v","r","_","m","a","s","t","e","r","_">> \o Stamp(now) \o <<".","x","l","s","x">>

\* the default template_path of create_master_cvr_template
MasterName == <<"m","a","s","t","e","r","_","c","v","r",".","x","l","s","x">>

\* sorted(glob.glob(f"{CVR_TEMPLATES_DIR}/*.xlsx"))[-1]
LatestTemplate(templates) == LastByName(DOMAIN templates)

\* col_index: header text -> column number (the last column with that header)
HasHeader(sheet, header) == \E c \in DOMAIN sheet[1] : sheet[1][c] = Str(<<header>>)

ColIndex(sheet, header) == Max({c \in DOMAIN sheet[1] : sheet[1][c] = Str(<<header>>)})

\* crud.get_job_detail_metrics on a store without invoices and variations: None (found FALSE)
\* for an unknown job id
get_job_detail_metrics(job_id) ==
    IF get_job_by_id(job_id) = {} THEN [found |-> FALSE]
    ELSE LET job == CHOOSE j \in jobs : j.id = job_id
             total_costs == BagSum(expenses, {e \in BagToSet(expenses) : e.job_id = job_id})
             total_invoiced == 0
             approved_variations == 0
             current_contract_value == job.contract_value + approved_variations
         IN [found |-> TRUE,
             job_code |-> job.job_code,
             amended_value |-> current_contract_value,
             total_costs |-> total_costs,
             total_invoiced |-> total_invoiced,
             pending_invoices |-> Max({0, total_costs - total_invoiced}),
             projected_margin |-> current_contract_value - job.estimated_final_cost]

\* the parameters of crud.get_job_detail_metrics(db, job_id)
MetricsParameters == {"db", "job_id"}

\* get_job_detail_metrics(db, <keyword>=value): TypeError for a keyword that is no parameter
CallMetrics(keyword, value) ==
    IF keyword \notin MetricsParameters
    THEN [raised |-> TRUE, error |-> "TypeError", metrics |-> [found |-> FALSE]]
    ELSE [raised |-> FALSE, error |-> "", metrics |-> get_job_detail_metrics(value)]

\* the five assignments to the cells of one row
WriteMetrics(sheet, r, metrics) ==
    [sheet EXCEPT ![r] =
        [c \in DOMAIN sheet[r] |->
            IF c = ColIndex(sheet, "Margin") THEN Num(metrics.projected_margin)
            ELSE IF c = ColIndex(sheet, "Amended Value") THEN Num(metrics.amended_value)
            ELSE IF c = ColIndex(sheet, "Est. Final Cost")
                 THEN Num(metrics.total_costs + metrics.pending_invoices)
            ELSE IF c = ColIndex(sheet, "Invoiced") THEN Num(metrics.total_invoiced)
            ELSE IF c = ColIndex(sheet, "Cost to Date") THEN Num(metrics.total_costs)
            ELSE sheet[r][c]]]

\* the loop over sheet.iter_rows(min_row=2), from row r on
RECURSIVE ProcessRows(_, _)
ProcessRows(sheet, r) ==
    IF r > Len(sheet) THEN [raised |-> FALSE, error |-> "", sheet |-> sheet]
    ELSE IF ~HasHeader(sheet, "Job Code") THEN [raised |-> TRUE, error |-> "KeyError", sheet |-> sheet]
    ELSE LET job_code == sheet[r][ColIndex(sheet, "Job Code")]
             call == CallMetrics("job_code", job_code)
         IN IF call.raised THEN [raised |-> TRUE, error |-> call.error, sheet |-> sheet]
            ELSE IF ~call.metrics.found THEN ProcessRows(sheet, r + 1)
            ELSE IF \E i \in DOMAIN CvrHeaders : ~HasHeader(sheet, CvrHeaders[i])
            THEN [raised |-> TRUE, error |-> "KeyError", sheet |-> sheet]
            ELSE ProcessRows(WriteMetrics(sheet, r, call.metrics), r + 1)

\* process_all_jobs_cvr(db) at the clock second now
process_all_jobs_cvr(files, now) ==
    IF DOMAIN files.templates = {}
    THEN [raised |-> TRUE, error |-> "FileNotFoundError", file |-> <<>>, files |-> files]
    ELSE LET done == ProcessRows(files.templates[LatestTemplate(files.templates)], 2)
             out_name == ProcessedName(now)
         IN IF done.raised
            THEN [raised |-> TRUE, error |-> done.error, file |-> <<>>, files |-> files]
            ELSE [raised |-> FALSE, error |-> "", file |-> out_name,
                  files |-> [files EXCEPT !.processed =
                                [n \in DOMAIN files.processed \cup {out_name} |->
                                    IF n = out_name THEN done.sheet ELSE files.processed[n]]]]

HeaderRow == [c \in DOMAIN CvrHeaders |-> Str(<<CvrHeaders[c]>>)]

\* master templates: no data row; a row of a job of the store with a formula and a negative
\* number; a row of an unknown job before one of a known job; a sheet without 'Job Code'
TemplateSheets ==
    {<<HeaderRow>>,
     <<HeaderRow, <<Str(<<"J1">>), Num(0), FormulaCell, Num(-5), Num(7), None>>>>,
     <<HeaderRow, <<Str(<<"J9">>), Num(1), Num(2), Num(3), Num(4), Num(5)>>,
                  <<Str(<<"J1">>), Num(1), Num(2), Num(3), Num(4), Num(5)>>>>,
     <<Tail(HeaderRow), <<Num(1), Num(2), Num(3), Num(4), Num(5)>>>>}

CvrJobs == {[id |-> 1, job_code |-> "J1", contract_value |-> 100, estimated_final_cost |-> 80],
            [id |-> 2, job_code |-> "J2", contract_value |-> 0, estimated_final_cost |-> 10]}

\* the active sheet of the workbook create_master_cvr_template saves: the default structure
MasterSheet ==
    <<<<Str(<<"Cost Value Reconciliation">>), None, None>>,
      <<Str(<<"Item">>), Str(<<"Description">>), Str(<<"Amount">>)>>>>
    \o [i \in 1..10 |->
           <<Str(<<<<"Contract Value", "Total Invoiced", "Total Costs", "Material Costs",
                     "Labour Costs", "Plant Costs", "Subcontract Costs", "Projected Margin",
                     "Variations Approved", "Variations Pending">>[i]>>),
             Str(<<"description">>), Num(0)>>]

\* a directory with the file written or overwritten
WriteFile(dir, name, content) ==
    [n \in DOMAIN dir \cup {name} |-> IF n = name THEN content ELSE dir[n]]

\* download_latest_cvr
download_latest_cvr_First(files) ==
    IF DOMAIN files.processed = {}
    THEN [raised |-> TRUE, error |-> "FileNotFoundError", path |-> <<>>]
    ELSE [raised |-> FALSE, error |-> "", path |-> FirstByName(DOMAIN files.processed)]

download_latest_cvr(files) ==
    IF DOMAIN files.processed = {}
    THEN [raised |-> TRUE, error |-> "FileNotFoundError", path |-> <<>>]
    ELSE [raised |-> FALSE, error |-> "", path |-> LastByName(DOMAIN files.processed)]

\* the clock (probe holds the current second) moves on
Tick ==
    /\ probe < MaxStamp
    /\ probe' = probe + 1
    /\ Called([op |-> "tick"])
    /\ UNCHANGED <<invoices, pc, jobs, budgets, expenses, alerts, ledger, update_rules>>

\* main.py upload_cvr_template: the file is written under the name of the current second,
\* then the import of validate_cvr_structure fails and the handler answers 500; a file
\* name that is no Excel name raises before anything is written
UploadCvrTemplate(sheet, is_excel) ==
    /\ ledger' = IF is_excel
                 THEN [ledger EXCEPT !.templates = WriteFile(@, UploadName(probe), sheet),
                                     !.newest = UploadName(probe)]
                 ELSE ledger
    /\ Called([op |-> "upload_cvr_template", written |-> is_excel, status |-> 500])
    /\ UNCHANGED <<invoices, pc, jobs, budgets, expenses, alerts, update_rules, probe>>

\* CVRUpdater.create_master_cvr_template()
CreateMasterCvrTemplate ==
    /\ ledger' = [ledger EXCEPT !.templates = WriteFile(@, MasterName, MasterSheet),
                                !.newest = MasterName]
    /\ Called([op |-> "create_master_cvr_template", success |-> TRUE])
    /\ UNCHANGED <<invoices, pc, jobs, budgets, expenses, alerts, update_rules, probe>>

ProcessAllJobsCvr ==
    LET run == process_all_jobs_cvr(ledger, probe)
    IN /\ ledger' = run.files
       /\ Called([op |-> "process_all_jobs_cvr", now |-> probe, before |-> ledger,
                  raised |-> run.raised, error |-> run.error, file |-> run.file])
       /\ UNCHANGED <<invoices, pc, jobs, budgets, expenses, alerts, update_rules, probe>>

DownloadLatestCvr ==
    /\ Called([op |-> "download_latest_cvr"] @@ download_latest_cvr(ledger))
    /\ UNCHANGED <<invoices, pc, jobs, budgets, expenses, alerts, ledger, update_rules, probe>>

InitCvr ==
    /\ jobs = CvrJobs
    /\ budgets = {}
    /\ expenses \in {EmptyBag, SetToBag({[job_id |-> 1, category |-> "labour", amount |-> 50]})}
    /\ alerts = {}
    /\ invoices = {}
    /\ ledger = [templates |-> <<>>, processed |-> <<>>, newest |-> <<>>]
    /\ update_rules = NoRules
    /\ pc = NoProcess
    /\ probe = 1
    /\ lastCall = NoCall

NextCvr ==
    \/ Tick
    \/ \E sheet \in TemplateSheets, is_excel \in BOOLEAN : UploadCvrTemplate(sheet, is_excel)
    \/ CreateMasterCvrTemplate
    \/ ProcessAllJobsCvr
    \/ DownloadLatestCvr

SpecCvr == InitCvr /\ [][NextCvr]_vars

(***************************************************************************)
(* Claims about process_all_jobs_cvr.                                      *)
(***************************************************************************)
ProcessCalled == lastCall.op = "process_all_jobs_cvr"

\* the metrics of the job with the code in a Job Code cell, found FALSE without such a job
MetricsOfCode(cell) ==
    IF \E j \in jobs : cell = Str(<<j.job_code>>)
    THEN get_job_detail_metrics((CHOOSE j \in jobs : cell = Str(<<j.job_code>>)).id)
    ELSE [found |-> FALSE]

\* C20: in the output of process_all_jobs_cvr every data row whose job code has
\* metrics in the store carries Cost to Date = total_costs, Invoiced =
\* total_invoiced, Est. Final Cost = total_costs + pending_invoices, Amended
\* Value = amended_value and Margin = projected_margin, whatever the cells held
\* before; every row whose job has no metrics keeps the template's values.
C20_FiveColumnsOverwritten ==
    /\ ProcessCalled
    /\ DOMAIN lastCall.before.templates # {}
    /\ \A i \in DOMAIN CvrHeaders :
           HasHeader(lastCall.before.templates[LatestTemplate(lastCall.before.templates)], CvrHeaders[i])
    => /\ ~lastCall.raised
       /\ lastCall.file \in DOMAIN ledger.processed
       /\ LET template == lastCall.before.templates[LatestTemplate(lastCall.before.templates)]
              output == ledger.processed[lastCall.file]
              Cell(sheet, r, header) == sheet[r][ColIndex(template, header)]
          IN /\ Len(output) = Len(template)
             /\ \A r \in 2..Len(template) :
                    LET metrics == MetricsOfCode(Cell(template, r, "Job Code"))
                    IN IF metrics.found
                       THEN /\ Cell(output, r, "Cost to Date") = Num(metrics.total_costs)
                            /\ Cell(output, r, "Invoiced") = Num(metrics.total_invoiced)
                            /\ Cell(output, r, "Est. Final Cost")
                                   = Num(metrics.total_costs + metrics.pending_invoices)
                            /\ Cell(output, r, "Amended Value") = Num(metrics.amended_value)
                            /\ Cell(output, r, "Margin") = Num(metrics.projected_margin)
                       ELSE output[r] = template[r]

\* C21: every completed run of process_all_jobs_cvr saves a new file: it leaves
\* the templates and the output files of earlier runs as they were and makes
\* the processed directory one file larger, also when two runs start within
\* the same clock second.
C21_EveryRunNewFile ==
    [][lastCall'.op = "process_all_jobs_cvr" /\ ~lastCall'.raised =>
           /\ ledger'.templates = ledger.templates
           /\ \A n \in DOMAIN ledger.processed :
                  n \in DOMAIN ledger'.processed /\ ledger'.processed[n] = ledger.processed[n]
           /\ Cardinality(DOMAIN ledger'.processed) = Cardinality(DOMAIN ledger.processed) + 1]_vars

DownloadCalled == lastCall.op = "download_latest_cvr"

\* the clock seconds of the runs whose output is in the processed directory
ProcessedStamps == {k \in 1..probe : ProcessedName(k) \in DOMAIN ledger.processed}

\* C22: under a clock that never goes back, the file a run of
\* process_all_jobs_cvr has just written is the last one by name in the
\* processed directory, and download_latest_cvr returns the file of the most
\* recent run; with an empty processed directory it fails with a not-found
\* error and returns no path.
C22_DownloadReturnsLatest ==
    /\ ProcessCalled /\ ~lastCall.raised =>
           /\ lastCall.file = ProcessedName(probe)
           /\ \A n \in DOMAIN ledger.processed : n = lastCall.file \/ LexLess(n, lastCall.file)
    /\ DownloadCalled =>
           IF DOMAIN ledger.processed = {}
           THEN lastCall.raised /\ lastCall.error = "FileNotFoundError" /\ lastCall.path = <<>>
           ELSE /\ ~lastCall.raised
                /\ DOMAIN ledger.processed = {ProcessedName(k) : k \in ProcessedStamps}
                /\ lastCall.path = ProcessedName(Max(ProcessedStamps))

\* the latest file was asked for after runs in two different seconds
C22_Witness ==
    /\ DownloadCalled
    /\ ~lastCall.raised
    /\ Cardinality(DOMAIN ledger.processed) >= 2

\* C25: called without a template path, process_all_jobs_cvr reads the template
\* that was uploaded or created most recently: the last .xlsx name of the
\* template directory is the name of the file written last.
C25_LatestTemplateIsNewest ==
    ProcessCalled /\ DOMAIN lastCall.before.templates # {} =>
        LatestTemplate(lastCall.before.templates) = lastCall.before.newest

(***************************************************************************)
(* crud.py: the invoice table and the overdue-invoice alerts.              *)
(* The clock (probe) counts whole days; due_date is a day number.          *)
(***************************************************************************)
MaxDay == 3

MaxInvoiceAlerts == 2

\* Invoice.is_paid == False and Invoice.due_date < datetime.utcnow(), "if job_id:" adding the job filter
get_overdue_invoices(rows, now, job_id) ==
    SortedById({i \in rows : /\ i.is_paid = FALSE
                             /\ i.due_date < now
                             /\ (job_id # 0 => i.job_id = job_id)})

\* (datetime.utcnow() - invoice.due_date).days
DaysOverdue(invoice, now) == now - invoice.due_date

\* f"Invoice {invoice.invoice_number} is {days_overdue} days overdue (£{invoice.amount:.2f})"
InvoiceMessage(invoice, now) ==
    <<"I","n","v","o","i","c","e"," ">> \o invoice.invoice_number \o <<" ","i","s"," ">>
        \o Digits(DaysOverdue(invoice, now))
        \o <<" ","d","a","y","s"," ","o","v","e","r","d","u","e"," ","(","£">>
        \o Fixed2(invoice.amount) \o <<")">>

\* "high" if days_overdue > 30 else "medium"
InvoiceSeverity(invoice, now) == IF DaysOverdue(invoice, now) > 30 THEN "high" ELSE "medium"

\* the existence query of check_and_create_invoice_alerts
ExistingInvoiceAlert(rows, invoice) ==
    {a \in rows : /\ a.job_id = invoice.job_id
                  /\ a.alert_type = "overdue_invoice"
                  /\ MessageContains(a.message, invoice.invoice_number)
                  /\ a.is_acknowledged = FALSE}

\* the loop of check_and_create_invoice_alerts over the overdue invoices, from entry i on
RECURSIVE InvoiceAlertLoop(_, _, _, _)
InvoiceAlertLoop(rows, overdue, now, i) ==
    IF i > Len(overdue) THEN rows
    ELSE IF ExistingInvoiceAlert(rows, overdue[i]) = {}
         THEN InvoiceAlertLoop(create_alert(rows, overdue[i].job_id, "overdue_invoice",
                                            InvoiceMessage(overdue[i], now),
                                            InvoiceSeverity(overdue[i], now)),
                               overdue, now, i + 1)
         ELSE InvoiceAlertLoop(rows, overdue, now, i + 1)

\* crud.check_and_create_invoice_alerts; job_id 0 stands for the default None
CheckAndCreateInvoiceAlerts(job_id) ==
    LET after == InvoiceAlertLoop(alerts, get_overdue_invoices(invoices, probe, job_id), probe, 1)
    IN /\ Cardinality(after) <= MaxInvoiceAlerts
       /\ alerts' = after
       /\ Called([op |-> "check_and_create_invoice_alerts", job_id |-> job_id,
                  created |-> {a.id : a \in after \ alerts}])
       /\ UNCHANGED <<jobs, budgets, expenses, invoices, ledgerVars, pc, probe>>

\* crud.mark_invoice_paid
MarkInvoicePaid(invoice_id) ==
    /\ invoices' = {IF i.id = invoice_id THEN [i EXCEPT !.is_paid = TRUE] ELSE i : i \in invoices}
    /\ Called([op |-> "mark_invoice_paid"])
    /\ UNCHANGED <<jobs, budgets, expenses, alerts, ledgerVars, pc, probe>>

\* crud.acknowledge_alert on the alerts of overdue invoices
AcknowledgeInvoiceAlert(alert_id) ==
    /\ alerts' = {IF a.id = alert_id THEN [a EXCEPT !.is_acknowledged = TRUE] ELSE a : a \in alerts}
    /\ Called([op |-> "acknowledge_alert"])
    /\ UNCHANGED <<jobs, budgets, expenses, invoices, ledgerVars, pc, probe>>

\* a day passes
NextDay ==
    /\ probe < MaxDay
    /\ probe' = probe + 1
    /\ Called([op |-> "next_day"])
    /\ UNCHANGED <<jobs, budgets, expenses, alerts, invoices, ledgerVars, pc>>

InvoiceNumbers == {<<"1">>, <<"1", "2">>, <<"5">>}

\* two invoices with different numbers
InvoiceTables ==
    {{[id |-> 1, job_id |-> 1, invoice_number |-> n1, amount |-> a1, due_date |-> d1, is_paid |-> FALSE],
      [id |-> 2, job_id |-> j2, invoice_number |-> n2, amount |-> 40, due_date |-> d2, is_paid |-> FALSE]} :
        <<n1, n2, j2, a1, d1, d2>> \in
            {t \in InvoiceNumbers \X InvoiceNumbers \X {1, 2} \X {12, 40} \X {-30, 1} \X {1} :
                t[1] # t[2]}}

InitOverdue ==
    /\ jobs = InitialJobs
    /\ budgets = {}
    /\ expenses = EmptyBag
    /\ alerts = {}
    /\ invoices \in InvoiceTables
    /\ ledger = NoLedger
    /\ update_rules = NoRules
    /\ pc = NoProcess
    /\ probe = 2
    /\ lastCall = NoCall

NextOverdue ==
    \/ \E job_id \in {0, 1, 2} : CheckAndCreateInvoiceAlerts(job_id)
    \/ \E invoice_id \in {1, 2} : MarkInvoicePaid(invoice_id)
    \/ \E alert_id \in 1..MaxInvoiceAlerts : AcknowledgeInvoiceAlert(alert_id)
    \/ NextDay

SpecOverdue == InitOverdue /\ [][NextOverdue]_vars

\* the live overdue_invoice alerts of the invoice's job whose message names exactly this invoice number
AlertsCreatedFor(invoice) ==
    {a \in alerts : /\ a.job_id = invoice.job_id
                    /\ a.alert_type = "overdue_invoice"
                    /\ a.is_acknowledged = FALSE
                    /\ Len(a.message) >= 12 + Len(invoice.invoice_number)
                    /\ SubSeq(a.message, 1, 12 + Len(invoice.invoice_number))
                           = <<"I","n","v","o","i","c","e"," ">> \o invoice.invoice_number
                                 \o <<" ","i","s"," ">>}

\* C23: after check_and_create_invoice_alerts has returned, every unpaid invoice past its
\* due date (of the job the call named, or of any job when it named none) has exactly one
\* live overdue_invoice alert of its job that was created for its invoice number; the
\* alert of another invoice number never stands in for it.
C23_OneAlertPerOverdueInvoice ==
    lastCall.op = "check_and_create_invoice_alerts" =>
        \A i \in invoices :
            (/\ i.is_paid = FALSE
             /\ i.due_date < probe
             /\ (lastCall.job_id # 0 => i.job_id = lastCall.job_id))
                => Cardinality(AlertsCreatedFor(i)) = 1

(***************************************************************************)
(* The single-job update of a job that the aggregates do not hold.         *)
(***************************************************************************)
\* C28: a call of update_cvr_with_pnl or update_cvr_with_invoice for a job code that is
\* absent from the aggregates it is given returns success = False and leaves the ledger
\* file as it was: no job sheet is added, no cell is written, the timestamp is not stamped.
C28_AbsentJobLeavesFile ==
    [][(/\ lastCall'.op \in {"update_cvr_with_pnl", "update_cvr_with_invoice"}
        /\ lastCall'.data = "absent")
           => (/\ lastCall'.result.success = FALSE
               /\ ledger' = ledger)]_vars

\* an update for an absent job code has failed, the job has no sheet in the file although
\* the file holds the Template sheet the call cloned in memory
C28_Witness ==
    /\ lastCall.op \in {"update_cvr_with_pnl", "update_cvr_with_invoice"}
    /\ lastCall.data = "absent"
    /\ lastCall.result.success = FALSE
    /\ SheetName(lastCall.job_code) \notin DOMAIN ledger
    /\ TemplateName \in DOMAIN ledger

(***************************************************************************)
(* update_cvr.py: two update calls on one ledger file.  A call loads the   *)
(* whole workbook (openpyxl.load_workbook), changes the copy it holds and  *)
(* writes the whole copy back (wb.save); nothing serializes two calls.     *)
(***************************************************************************)
Callers == {1, 2}

Idle == [at |-> "idle", op |-> "none", data |-> <<>>, job_code |-> "none", wb |-> <<>>,
         saved |-> <<>>, success |-> FALSE, loaded_after |-> {}, saved_after |-> {}]

\* a save that writes only the cells the call changed into the file as it is now
SavedFile_Merged(current, loaded, written) ==
    [n \in DOMAIN current \cup DOMAIN written |->
        IF n \notin DOMAIN written THEN current[n]
        ELSE IF n \notin DOMAIN current \/ n \notin DOMAIN loaded THEN written[n]
        ELSE [c \in DOMAIN written[n] |->
                 IF written[n][c] # loaded[n][c] THEN written[n][c] ELSE current[n][c]]]

\* wb.save(cvr_file_path): the file becomes the workbook the call holds
SavedFile(current, loaded, written) == written

\* wb = openpyxl.load_workbook(cvr_file_path), the first statement of an update call
LoadWorkbook(p, op, data, job_code) ==
    /\ pc[p].at = "idle"
    /\ pc' = [pc EXCEPT ![p] = [Idle EXCEPT !.at = "loaded", !.op = op, !.data = data,
                                            !.job_code = job_code, !.wb = ledger,
                                            !.loaded_after = {q \in Callers : pc[q].at = "returned"}]]
    /\ Called([op |-> "load_workbook", caller |-> p])
    /\ UNCHANGED <<jobs, budgets, expenses, alerts, invoices, ledgerVars, probe>>

\* the rest of the call: the changes to the loaded workbook, wb.save and the return
SaveWorkbook(p) ==
    /\ pc[p].at = "loaded"
    /\ LET r == IF pc[p].op = "update_cvr_with_pnl"
                THEN update_cvr_with_pnl(pc[p].wb, update_rules, pc[p].data, pc[p].job_code)
                ELSE update_cvr_with_invoice(pc[p].wb, update_rules, pc[p].data, pc[p].job_code)
       IN /\ ledger' = IF r.result.success THEN SavedFile(ledger, pc[p].wb, r.file) ELSE ledger
          /\ pc' = [pc EXCEPT ![p].at = "returned", ![p].saved = r.file,
                              ![p].success = r.result.success,
                              ![p].saved_after = {q \in Callers : pc[q].at = "returned"}]
    /\ Called([op |-> "save_workbook", caller |-> p])
    /\ UNCHANGED <<jobs, budgets, expenses, alerts, invoices, update_rules, probe>>

InitRace ==
    /\ jobs = InitialJobs
    /\ budgets = {}
    /\ expenses = EmptyBag
    /\ alerts = {}
    /\ invoices = {}
    /\ ledger \in InitialLedgers
    /\ update_rules = DefaultRules
    /\ pc = [p \in Callers |-> Idle]
    /\ probe = NoProbe
    /\ lastCall = NoCall

NextRace ==
    \/ \E p \in Callers, d \in PnlDataInputs, j \in JobCodes : LoadWorkbook(p, "update_cvr_with_pnl", d, j)
    \/ \E p \in Callers, d \in InvoiceDataInputs, j \in JobCodes :
          LoadWorkbook(p, "update_cvr_with_invoice", d, j)
    \/ \E p \in Callers : SaveWorkbook(p)

SpecRace == InitRace /\ [][NextRace]_vars

\* the cells the call of p changed in the workbook it had loaded
WrittenCells(p) ==
    {nc \in UNION {{<<n, c>> : c \in DOMAIN pc[p].saved[n]} : n \in DOMAIN pc[p].saved} :
        \/ nc[1] \notin DOMAIN pc[p].wb
        \/ pc[p].saved[nc[1]][nc[2]] # pc[p].wb[nc[1]][nc[2]]}

\* the file holds, in this cell, what the call of p wrote
InFile(p, nc) == nc[1] \in DOMAIN ledger /\ ledger[nc[1]][nc[2]] = pc[p].saved[nc[1]][nc[2]]

BothSucceeded == \A p \in Callers : pc[p].at = "returned" /\ pc[p].success

\* C24: when two update calls on one ledger file have both returned success, then (a) if
\* one call loaded the file after the other had saved it, the file holds every cell the
\* later call wrote and every cell the earlier call wrote that the later one did not write
\* again, and (b) if each call loaded the file before the other saved it, the file is the
\* workbook of the call that saved last, so the cells only the other call wrote are lost.
C24_LostUpdateOnlyWhenInterleaved ==
    BothSucceeded =>
        \A p, q \in Callers :
            (p # q /\ p \in pc[q].saved_after) =>
                /\ \A nc \in WrittenCells(q) : InFile(q, nc)
                /\ p \in pc[q].loaded_after =>
                       \A nc \in WrittenCells(p) \ WrittenCells(q) : InFile(p, nc)
                /\ p \notin pc[q].loaded_after =>
                       /\ ledger = pc[q].saved
                       /\ \A nc \in WrittenCells(p) \ WrittenCells(q) :
                              \/ nc[1] \notin DOMAIN pc[q].wb /\ nc[1] \notin DOMAIN ledger
                              \/ /\ nc[1] \in DOMAIN pc[q].wb
                                 /\ ledger[nc[1]][nc[2]] = pc[q].wb[nc[1]][nc[2]]

\* both calls returned success for the same job, one with P&L and one with invoice
\* aggregates, and the file lacks a cell that one of them wrote
C24_Witness ==
    /\ BothSucceeded
    /\ pc[1].job_code = pc[2].job_code
    /\ pc[1].op # pc[2].op
    /\ \E p \in Callers : \E nc \in WrittenCells(p) : ~InFile(p, nc)

(***************************************************************************)
(* crud.py: two executions of check_and_create_budget_alerts.  Each runs   *)
(* in a session of its own; the existence query and the insert of          *)
(* create_alert are separate statements with no lock, no unique            *)
(* constraint and no transaction that spans them.                          *)
(***************************************************************************)
Sessions == {1, 2}

NotChecking == [at |-> "idle", job_id |-> 0, overruns |-> <<>>, i |-> 0, existing |-> FALSE]

\* overruns = check_budget_overruns(db, job_id)
BeginCheck(p, job_id) ==
    /\ pc[p].at = "idle"
    /\ IF CheckBudgetOverrunsRaises(job_id)
       THEN /\ pc' = pc
            /\ Called([op |-> "check_budget_overruns", session |-> p, result |-> "ZeroDivisionError"])
       ELSE /\ pc' = [pc EXCEPT ![p] = [at |-> "query", job_id |-> job_id,
                                        overruns |-> check_budget_overruns(job_id),
                                        i |-> 1, existing |-> FALSE]]
            /\ Called([op |-> "check_budget_overruns", session |-> p, result |-> "returned"])
    /\ UNCHANGED <<jobs, budgets, expenses, alerts, invoices, ledgerVars, probe>>

\* existing_alert = db.query(Alert).filter(...).first() for the next overrun, or the return
QueryExistingAlert(p) ==
    /\ pc[p].at = "query"
    /\ IF pc[p].i > Len(pc[p].overruns)
       THEN pc' = [pc EXCEPT ![p] = NotChecking]
       ELSE pc' = [pc EXCEPT ![p].at = "insert",
                             ![p].existing =
                                 ExistingBudgetAlert(alerts, pc[p].job_id,
                                                     pc[p].overruns[pc[p].i].category) # {}]
    /\ Called([op |-> "query_existing_alert", session |-> p])
    /\ UNCHANGED <<jobs, budgets, expenses, alerts, invoices, ledgerVars, probe>>

\* if not existing_alert: create_alert(...)
InsertAlert(p) ==
    /\ pc[p].at = "insert"
    /\ alerts' = IF pc[p].existing THEN alerts
                 ELSE create_alert(alerts, pc[p].job_id, "budget_overrun",
                                   OverrunMessage(pc[p].overruns[pc[p].i]),
                                   OverrunSeverity(pc[p].overruns[pc[p].i]))
    /\ pc' = [pc EXCEPT ![p].at = "query", ![p].i = pc[p].i + 1]
    /\ Called([op |-> "create_alert", session |-> p, created |-> ~pc[p].existing])
    /\ UNCHANGED <<jobs, budgets, expenses, invoices, ledgerVars, probe>>

\* job 1 with a labour and a material budget and one expense in each category
RaceBudgets ==
    {{[id |-> 1, job_id |-> 1, category |-> "labour", budgeted_amount |-> b1],
      [id |-> 2, job_id |-> 1, category |-> "material", budgeted_amount |-> b2]} :
        <<b1, b2>> \in {0, 10} \X {10, 20}}

RaceExpenses ==
    {SetToBag({[job_id |-> 1, category |-> "labour", amount |-> e1],
               [job_id |-> 1, category |-> "material", amount |-> e2]}) :
        <<e1, e2>> \in {5, 15, 25} \X {5, 15, 25}}

InitAlertRace ==
    /\ jobs = InitialJobs
    /\ budgets \in RaceBudgets
    /\ expenses \in RaceExpenses
    /\ alerts = {}
    /\ invoices = {}
    /\ ledger = NoLedger
    /\ update_rules = NoRules
    /\ pc = [p \in Sessions |-> NotChecking]
    /\ probe = NoProbe
    /\ lastCall = NoCall

NextAlertRace ==
    \/ \E p \in Sessions, j \in {x.id : x \in jobs} : BeginCheck(p, j)
    \/ \E p \in Sessions : QueryExistingAlert(p)
    \/ \E p \in Sessions : InsertAlert(p)

SpecAlertRace == InitAlertRace /\ [][NextAlertRace]_vars

\* C26: whatever the interleaving of the existence queries and the inserts of two
\* executions of check_and_create_budget_alerts, there are never two unacknowledged
\* budget_overrun alerts for the same job and category.
C26_NoDuplicateUnderInterleaving ==
    \A j \in JobIdInputs, c \in ExpenseCategory : Cardinality(LiveAlertsFor(j, c)) <= 1

(***************************************************************************)
(* Acknowledged alerts and the next budget check.                          *)
(***************************************************************************)
\* the operations of the store on the budgets, expenses and alerts of job 1
AckTargets == {<<1, "labour">>, <<1, "plant_machinery">>}

NextAck ==
    \/ \E t \in AckTargets, a \in BudgetAmounts : CreateBudget(t[1], t[2], a)
    \/ \E t \in AckTargets, a \in ExpenseAmounts : CreateExpense(t[1], t[2], a)
    \/ \E i \in 1..(MaxAlerts + 1) : AcknowledgeAlert(i)
    \/ CheckAndCreateBudgetAlerts(1)

SpecAck == Init /\ [][NextAck]_vars

AcknowledgedAlertsFor(job_id, category) ==
    {a \in alerts : a.job_id = job_id /\ a.is_acknowledged /\ IsAlertFor(a, category)}

LiveAlertsIn(rows, job_id, category) ==
    {a \in rows : a.job_id = job_id /\ ~a.is_acknowledged /\ IsAlertFor(a, category)}

MaxImported == 4

\* the sum of Expense.amount over a job and category, in the given expense rows
ActualSpendIn(bag, job_id, category) ==
    BagSum(bag, {e \in BagToSet(bag) : e.job_id = job_id /\ e.category = category})

OverBudgetIn(bag, b) == ActualSpendIn(bag, b.job_id, b.category) > b.budgeted_amount

\* check_budget_overruns on the given rows: the division by a zero budget raises
check_budget_overruns_In(budgetRows, bag, job_id) ==
    LET rows == SortedById({b \in budgetRows : b.job_id = job_id})
        over == SelectSeq(rows, LAMBDA b : OverBudgetIn(bag, b))
    IN [raised |-> \E k \in DOMAIN over : over[k].budgeted_amount = 0,
        overruns |-> [k \in DOMAIN over |->
                         [category |-> over[k].category,
                          budgeted |-> over[k].budgeted_amount,
                          actual |-> ActualSpendIn(bag, job_id, over[k].category),
                          overrun |-> ActualSpendIn(bag, job_id, over[k].category)
                                          - over[k].budgeted_amount]]]

\* save_expenses_to_database: one crud.create_expense per processed line item
RECURSIVE save_expenses_to_database(_, _, _)
save_expenses_to_database(bag, items, i) ==
    IF i > Len(items) THEN bag
    ELSE save_expenses_to_database(
             bag (+) SetToBag({[job_id |-> items[i].job_id, category |-> items[i].category,
                                amount |-> items[i].amount]}),
             items, i + 1)

\* set(expense['job_id'] for expense in parser.processed_expenses)
TouchedJobs(items) == {items[i].job_id : i \in DOMAIN items}

\* the loop "for job_id in set(...): crud.check_and_create_budget_alerts(db, job_id)" over the
\* job ids that are left, in ascending order; it ends at the first check that raises
RECURSIVE AlertChecks(_, _, _, _)
AlertChecks(budgetRows, bag, alertRows, left) ==
    IF left = {} THEN [raised |-> FALSE, alerts |-> alertRows]
    ELSE LET job_id == Min(left)
             check == check_budget_overruns_In(budgetRows, bag, job_id)
         IN IF check.raised THEN [raised |-> TRUE, alerts |-> alertRows]
            ELSE AlertChecks(budgetRows, bag,
                             BudgetAlertLoop(alertRows, job_id, check.overruns, 1),
                             left \ {job_id})

\* the dictionary process_pnl_file returns and the store it leaves, given the result of the
\* pass, the expense rows after saving and the outcome of the alert checks
ImportOutcome(pass, saved, checked) ==
    [jobs |-> pass.store, expenses |-> saved, alerts |-> checked.alerts,
     touched |-> TouchedJobs(pass.processed_expenses),
     result |-> IF checked.raised THEN [success |-> FALSE, expenses_created |-> 0]
                ELSE [success |-> TRUE, expenses_created |-> Len(pass.processed_expenses)]]

\* steps 4 and 5 with the budgets checked against the expense rows as they were before saving
SaveAndCheck_ChecksFirst(pass, budgetRows, bag, alertRows) ==
    ImportOutcome(pass, save_expenses_to_database(bag, pass.processed_expenses, 1),
                  AlertChecks(budgetRows, bag, alertRows, TouchedJobs(pass.processed_expenses)))

\* steps 4 and 5 of process_pnl_file: save the line items, then check the budgets of every
\* job that received one against the saved rows
SaveAndCheck(pass, budgetRows, bag, alertRows) ==
    \* the saved rows are computed once and handed to the checks
    LET saved == save_expenses_to_database(bag, pass.processed_expenses, 1)
    IN ImportOutcome(pass, saved,
                     AlertChecks(budgetRows, saved, alertRows, TouchedJobs(pass.processed_expenses)))

\* process_pnl_file: the store after the call and the dictionary it returns; an unreadable
\* file makes parse_excel_file raise before anything is written
process_pnl_file(store, budgetRows, bag, alertRows, report, readable) ==
    IF ~readable
    THEN [jobs |-> store, expenses |-> bag, alerts |-> alertRows, touched |-> {},
          result |-> [success |-> FALSE, expenses_created |-> 0]]
    ELSE SaveAndCheck(process_pnl_data(store, load_job_mappings(store), ReportData(report)),
                      budgetRows, bag, alertRows)

\* POST /api/upload/pnl: process_pnl_file(file_path, db)
ProcessPnlFile(report, readable) ==
    \E r \in {process_pnl_file(jobs, budgets, expenses, alerts, report, readable)} :
       /\ BagCardinality(r.expenses) <= MaxImported
       /\ jobs' = r.jobs
       /\ expenses' = r.expenses
       /\ alerts' = r.alerts
       /\ Called([op |-> "process_pnl_file", report |-> report, readable |-> readable,
                  touched |-> r.touched, result |-> r.result])
       /\ UNCHANGED <<budgets, invoices, ledgerVars, pc, probe>>

\* plant and machinery budgets of the jobs JOB1 (id 1) and JOB2 (id 2)
ImportBudgets ==
    {b1 \cup b2 :
        b1 \in {{}} \cup {{[id |-> 1, job_id |-> 1, category |-> "plant_machinery", budgeted_amount |-> a]} :
                             a \in {0, 150}},
        b2 \in {{}} \cup {{[id |-> 2, job_id |-> 2, category |-> "plant_machinery", budgeted_amount |-> a]} :
                             a \in {20, 200}}}

InitImport ==
    /\ jobs \in {{}, {j \in PnlStoreJobs : j.id < 3}, PnlStoreJobs}
    /\ budgets \in ImportBudgets
    /\ expenses = EmptyBag
    /\ alerts = {}
    /\ invoices = {}
    /\ ledger = NoLedger
    /\ update_rules = NoRules
    /\ pc = NoProcess
    /\ probe = NoProbe
    /\ lastCall = NoCall

NextImport == \E report \in ReportNames, readable \in BOOLEAN : ProcessPnlFile(report, readable)

SpecImport == InitImport /\ [][NextImport]_vars

ImportCalled == lastCall.op = "process_pnl_file"

\* C29: a process_pnl_file that returns success = False with expenses_created = 0 has
\* persisted no expense row and created no job, whichever step failed.
C29_FailureLeavesStore ==
    [][(/\ lastCall'.op = "process_pnl_file"
        /\ lastCall'.result.success = FALSE
        /\ lastCall'.result.expenses_created = 0)
           => (expenses' = expenses /\ jobs' = jobs)]_vars

\* C30: when process_pnl_file has returned success = True, every budget category of every
\* job that received a line item whose persisted actual spend exceeds the budgeted amount
\* has a live budget_overrun alert.
C30_AlertsAfterImport ==
    (ImportCalled /\ lastCall.result.success) =>
        \A b \in budgets :
            (b.job_id \in lastCall.touched /\ ActualSpend(b.job_id, b.category) > b.budgeted_amount)
                => LiveAlertsFor(b.job_id, b.category) # {}

\* an import has saved several line items and a job that received one is over a budget
\* and has the live alert, while another budget of the store is not exceeded
C30_Witness ==
    /\ ImportCalled
    /\ lastCall.result.success
    /\ lastCall.result.expenses_created > 1
    /\ \E b \in budgets :
          /\ b.job_id \in lastCall.touched
          /\ ActualSpend(b.job_id, b.category) > b.budgeted_amount
          /\ LiveAlertsFor(b.job_id, b.category) # {}
    /\ \E b \in budgets : ActualSpend(b.job_id, b.category) <= b.budgeted_amount

====
